---- MODULE Spec2Model ----
(***************************************************************************)
(* State-machine model of ryobi_gdo_2_mqtt: the account client's module    *)
(* index (api.py), the push-frame decoder (websocket_parser.py), the       *)
(* per-device bridge RyobiDevice with its CommandHandler and the           *)
(* DeviceManager (device_manager.py), the ServiceCoordinator (service.py)  *)
(* and the entry point RyobiGDO2MQTT._run (ryobigdo2mqtt.py).              *)
(*                                                                         *)
(* Strings that the code parses (module wire keys, frame keys) are         *)
(* sequences of tokens, e.g. "garageDoor_7.doorState" is                   *)
(* <<"garageDoor", "_", "7", ".", "doorState">>, so that split(), the      *)
(* containment test and int() are computed, not assumed.                   *)
(*                                                                         *)
(* Two threads act on a device: the event loop thread (tasks, frame        *)
(* callbacks, cleanup) and the MQTT client thread that runs the command    *)
(* handlers.  A handler is a sequence of steps so that the loop thread     *)
(* can interleave with it.                                                 *)
(***************************************************************************)
EXTENDS Integers, Sequences, FiniteSets, TLC

\* ------------------------------------------------------------- bounds
\* Commands accepted from MQTT over a run, and frames delivered over a run.
MaxCmds == 2
MaxFrames == 2

Devices == {"d1", "d2"}

\* Option values: None is the empty tuple, Some(v) the one-element tuple.
None == <<>>
Some(v) == <<v>>

\* ------------------------------------------------------- string helpers
\* str.split(sep) on a token sequence.
RECURSIVE Split(_, _)
Split(s, sep) ==
    IF \A i \in 1..Len(s) : s[i] # sep
    THEN <<s>>
    ELSE LET i == CHOOSE k \in 1..Len(s) :
                    s[k] = sep /\ \A j \in 1..(k - 1) : s[j] # sep
         IN  <<SubSeq(s, 1, i - 1)>> \o Split(SubSeq(s, i + 1, Len(s)), sep)

\* The test `name in key`.
Contains(s, tok) == \E i \in 1..Len(s) : s[i] = tok

DigitTokens == {"0", "1", "2", "3", "4", "5", "6", "7", "8", "9"}

DigitVal(t) ==
    CASE t = "0" -> 0 [] t = "1" -> 1 [] t = "2" -> 2 [] t = "3" -> 3
      [] t = "4" -> 4 [] t = "5" -> 5 [] t = "6" -> 6 [] t = "7" -> 7
      [] t = "8" -> 8 [] t = "9" -> 9

\* int(s) for a sequence of digit tokens.
RECURSIVE ToInt(_)
ToInt(s) ==
    IF Len(s) = 0 THEN 0
    ELSE 10 * ToInt(SubSeq(s, 1, Len(s) - 1)) + DigitVal(s[Len(s)])

\* ------------------------------------------------------------ constants
\* constants.py
BATTERY_LOW_THRESHOLD == 20

\* A to_string with the names of codes 2 and 3 exchanged.
DoorStatesToStringSwapped(value) ==
    CASE value = 0 -> "closed"
      [] value = 1 -> "open"
      [] value = 2 -> "opening"
      [] value = 3 -> "closing"
      [] value = 4 -> "fault"
      [] OTHER -> "unknown"

DoorStatesToString(value) ==
    CASE value = 0 -> "closed"
      [] value = 1 -> "open"
      [] value = 2 -> "closing"
      [] value = 3 -> "opening"
      [] value = 4 -> "fault"
      [] OTHER -> "unknown"

\* A DoorCommands whose STOP has the value of OPEN.
DoorCommandsStopIsOpen == [OPEN |-> 1, CLOSE |-> 0, STOP |-> 1]

DoorCommands == [OPEN |-> 1, CLOSE |-> 0, STOP |-> 2]

LightStates == [ON |-> 1, OFF |-> 0]

\* device_manager.py MODULES
MODULES ==
    [garageDoor      |-> [module_type |-> 5, attribute_name |-> "doorCommand"],
     garageLight     |-> [module_type |-> 5, attribute_name |-> "lightState"],
     backupCharger   |-> [module_type |-> 6, attribute_name |-> "chargeLevel"],
     wifiModule      |-> [module_type |-> 7, attribute_name |-> "rssi"],
     parkAssistLaser |-> [module_type |-> 1, attribute_name |-> "moduleState"],
     inflator        |-> [module_type |-> 4, attribute_name |-> "moduleState"],
     btSpeaker       |-> [module_type |-> 2, attribute_name |-> "moduleState"],
     fan             |-> [module_type |-> 3, attribute_name |-> "speed"]]

\* ------------------------------------------------------- account client
\* api.py _index_modules: module_list
ModuleList ==
    {"garageDoor", "backupCharger", "garageLight", "wifiModule",
     "parkAssistLaser", "inflator", "btSpeaker", "fan"}

\* frame[module] = key, for every module whose name the key contains.
IndexOverride(frame, key) ==
    LET ms == {m \in ModuleList : Contains(key, m)}
    IN  [m \in (DOMAIN frame) \cup ms |-> IF m \in ms THEN key ELSE frame[m]]

\* The scan `for key in dtm` of _index_modules, from entry i on.
RECURSIVE IndexFold(_, _, _)
IndexFold(dtm, i, frame) ==
    IF i > Len(dtm) THEN frame
    ELSE IndexFold(dtm, i + 1, IndexOverride(frame, dtm[i].key))

IndexModules(dtm) == IndexFold(dtm, 1, <<>>)

\* A get_module that reads one digit of the port.
GetModuleFirstDigit(mods, d, module) ==
    IF d \notin DOMAIN mods \/ module \notin DOMAIN mods[d]
    THEN None
    ELSE Some(DigitVal(Split(mods[d][module], "_")[2][1]))

\* api.py get_module: the port of a capability, None when not indexed.
GetModule(mods, d, module) ==
    IF d \notin DOMAIN mods \/ module \notin DOMAIN mods[d]
    THEN None
    ELSE Some(ToInt(Split(mods[d][module], "_")[2]))

\* get_module raises: IndexError when the indexed key has no "_", ValueError
\* when the text between its first "_" and the next is not a number.
GetModuleRaises(mods, d, module) ==
    /\ d \in DOMAIN mods
    /\ module \in DOMAIN mods[d]
    /\ LET parts == Split(mods[d][module], "_")
       IN  \/ Len(parts) < 2
           \/ parts[2] = <<>>
           \/ \E i \in 1..Len(parts[2]) : parts[2][i] \notin DigitTokens

\* dtm[key] for a key of the type map.
DtmEntry(dtm, key) == dtm[CHOOSE i \in 1..Len(dtm) : dtm[i].key = key]

\* The attributes update_device reads from an indexed module without a guard.
RequiredAttrs(module) ==
    CASE module = "garageDoor"      -> {"doorState", "sensorFlag", "vacationMode"}
      [] module = "garageLight"     -> {"lightState"}
      [] module = "backupCharger"   -> {"chargeLevel"}
      [] module = "wifiModule"      -> {"rssi"}
      [] module = "parkAssistLaser" -> {"moduleState"}
      [] module = "inflator"        -> {"moduleState"}
      [] module = "btSpeaker"       -> {"moduleState", "micEnable"}
      [] module = "fan"             -> {"speed"}

\* update_device raises KeyError -> RyobiInvalidResponseError while parsing
\* the initial values of an indexed module.
MissingAttr(dtm) ==
    LET mods == IndexModules(dtm)
    IN  \E m \in DOMAIN mods :
            ~(RequiredAttrs(m) \subseteq DOMAIN DtmEntry(dtm, mods[m]).at)

\* A reply of the request primitive to GET devices/{id}.
ReplyOk(dtm) == [kind |-> "ok", dtm |-> dtm]
ReplyConnError == [kind |-> "conn_error", dtm |-> <<>>]
ReplyNoResult == [kind |-> "no_result", dtm |-> <<>>]
ReplyEmptyResult == [kind |-> "empty_result", dtm |-> <<>>]
ReplyNoTypeMap == [kind |-> "no_dtm", dtm |-> <<>>]

\* update_device reaches _index_modules (line 207) and replaces the index.
UpdateIndexes(reply) == reply.kind = "ok"

\* update_device raises.
UpdateRaises(reply) == reply.kind # "ok" \/ MissingAttr(reply.dtm)

\* The exception update_device ends with ("" when it returns): the request
\* primitive's own error, the KeyError of a missing key turned into
\* RyobiInvalidResponseError (lines 256-258), or the IndexError of
\* request["result"][0] on an empty list, which no clause catches.
UpdateError(reply) ==
    CASE reply.kind = "conn_error"   -> "RyobiConnectionError"
      [] reply.kind = "no_result"    -> "RyobiInvalidResponseError"
      [] reply.kind = "empty_result" -> "IndexError"
      [] reply.kind = "no_dtm"       -> "RyobiInvalidResponseError"
      [] reply.kind = "ok" ->
            IF MissingAttr(reply.dtm) THEN "RyobiInvalidResponseError" ELSE ""

\* The DeviceData fields update_device returns (absent field: None).
DeviceDataOf(dtm) ==
    LET mods == IndexModules(dtm)
        at(m) == DtmEntry(dtm, mods[m]).at
        has(m) == m \in DOMAIN mods
        door == IF has("garageDoor")
                THEN [door_state |-> DoorStatesToString(at("garageDoor").doorState),
                      safety |-> at("garageDoor").sensorFlag,
                      vacation_mode |-> at("garageDoor").vacationMode]
                ELSE <<>>
        motion == IF has("garageDoor") /\ "motionSensor" \in DOMAIN at("garageDoor")
                  THEN [motion |-> at("garageDoor").motionSensor]
                  ELSE <<>>
        light == IF has("garageLight")
                 THEN [light_state |-> at("garageLight").lightState]
                 ELSE <<>>
        batt == IF has("backupCharger")
                THEN [battery_level |-> at("backupCharger").chargeLevel]
                ELSE <<>>
        wifi == IF has("wifiModule")
                THEN [wifi_rssi |-> at("wifiModule").rssi]
                ELSE <<>>
        park == IF has("parkAssistLaser")
                THEN [park_assist |-> at("parkAssistLaser").moduleState]
                ELSE <<>>
        infl == IF has("inflator")
                THEN [inflator |-> at("inflator").moduleState]
                ELSE <<>>
        spk == IF has("btSpeaker")
               THEN [bt_speaker |-> at("btSpeaker").moduleState,
                     mic_status |-> at("btSpeaker").micEnable]
               ELSE <<>>
        fan == IF has("fan") THEN [fan |-> at("fan").speed] ELSE <<>>
    IN  door @@ motion @@ light @@ batt @@ wifi @@ park @@ infl @@ spk @@ fan

\* An update_device that adds the new entries to the ones d already has.
UpdateDeviceModulesMerge(mods, d, reply) ==
    IF UpdateIndexes(reply)
    THEN [x \in (DOMAIN mods) \cup {d} |->
              IF x = d
              THEN IndexModules(reply.dtm)
                   @@ (IF d \in DOMAIN mods THEN mods[d] ELSE <<>>)
              ELSE mods[x]]
    ELSE mods

\* An update_device that keeps one module index for the whole account.
UpdateDeviceModulesShared(mods, d, reply) ==
    IF UpdateIndexes(reply)
    THEN [x \in (DOMAIN mods) \cup {d} |-> IndexModules(reply.dtm)]
    ELSE mods

\* _device_modules after update_device(d) with this reply.
UpdateDeviceModules(mods, d, reply) ==
    IF UpdateIndexes(reply)
    THEN [x \in (DOMAIN mods) \cup {d} |->
              IF x = d THEN IndexModules(reply.dtm) ELSE mods[x]]
    ELSE mods

\* ------------------------------------------------------ frame decoder
\* websocket_parser.py, the keys parse_attribute_update skips.
ReservedKeys == {<<"topic">>, <<"varName">>, <<"id">>}

\* A params entry is [key, box, kind, value]: box tells whether params[key] is
\* a dict holding "value" ("dict"), a dict without it ("empty") or the bare
\* value ("bare"); kind is the Python type of the value ("int", "str" for text
\* that is not a number, "digits" for text that is one, "list", "none") and
\* value its number when it has one.
\* params[key].get("value") if it is a dict, else params[key].
ParamValue(p) == p.value

ParamKind(p) == IF p.box = "empty" THEN "none" ELSE p.kind

\* bool(value)
Truthy(kind, value) ==
    CASE kind = "int" -> value # 0
      [] kind = "none" -> FALSE
      [] OTHER -> TRUE

\* The attribute name: key.split(".")[1] if "." in key else key.
AttrName(key) == IF Contains(key, ".") THEN Split(key, ".")[2] ELSE key

\* The field one params entry decodes to: Some(<<field, value>>) or None.
\* The attributes that are passed on unconverted carry integers in the frames
\* of this model.
ParamUpdate(p) ==
    LET key == p.key
        name == AttrName(key)
        value == ParamValue(p)
        kind == ParamKind(p)
    IN  IF Contains(key, "garageDoor") THEN
            IF name = <<"doorState">> THEN
                IF kind = "int" /\ DoorStatesToString(value) # "unknown"
                THEN Some(<<"door_state", DoorStatesToString(value)>>)
                ELSE None
            ELSE IF name = <<"motionSensor">> THEN Some(<<"motion", value>>)
            ELSE IF name = <<"vacationMode">> THEN Some(<<"vacation_mode", value>>)
            ELSE IF name = <<"sensorFlag">> THEN Some(<<"safety", value>>)
            ELSE None
        ELSE IF Contains(key, "garageLight") THEN
            IF name = <<"lightState">>
            THEN Some(<<"light_state", Truthy(kind, value)>>)
            ELSE None
        ELSE IF Contains(key, "backupCharger") THEN
            IF name = <<"chargeLevel">> THEN Some(<<"battery_level", value>>)
            ELSE None
        ELSE IF Contains(key, "parkAssistLaser") THEN Some(<<"park_assist", value>>)
        ELSE IF Contains(key, "btSpeaker") THEN Some(<<"bt_speaker", value>>)
        ELSE IF Contains(key, "inflator") THEN Some(<<"inflator", value>>)
        ELSE IF Contains(key, "fan") THEN Some(<<"fan", value>>)
        ELSE None

\* Decoding this params entry raises: the lookup in DoorStates.to_string of an
\* unhashable value (TypeError), int() of text that is not a number
\* (ValueError) or of None or a list (TypeError).
ParamRaises(p) ==
    LET name == AttrName(p.key)
        kind == ParamKind(p)
    IN  IF Contains(p.key, "garageDoor")
        THEN name = <<"doorState">> /\ kind = "list"
        ELSE IF Contains(p.key, "garageLight") THEN FALSE
        ELSE /\ Contains(p.key, "backupCharger")
             /\ name = <<"chargeLevel">>
             /\ kind \in {"str", "list", "none"}

\* The exception it raises.
ParamError(p) ==
    IF ParamKind(p) = "str" THEN "ValueError" ELSE "TypeError"

\* A dict assignment that keeps the value a field already has.
SetFieldKeepFirst(updates, field, value) ==
    [f \in (DOMAIN updates) \cup {field} |->
        IF f \in DOMAIN updates THEN updates[f] ELSE value]

\* updates[field] = value
SetField(updates, field, value) ==
    [f \in (DOMAIN updates) \cup {field} |->
        IF f = field THEN value ELSE updates[f]]

\* The loop `for key in params`, from entry i on, up to the entry that
\* raises: [updates, error], error being "" when nothing was raised.  When
\* params is a list of keys, params[key] raises TypeError at its first key
\* that is not reserved.
RECURSIVE ParseFold(_, _, _, _)
ParseFold(shape, params, i, updates) ==
    IF i > Len(params) THEN [updates |-> updates, error |-> ""]
    ELSE IF params[i].key \in ReservedKeys
         THEN ParseFold(shape, params, i + 1, updates)
         ELSE IF shape = "list"
              THEN [updates |-> updates, error |-> "TypeError"]
              ELSE IF ParamRaises(params[i])
              THEN [updates |-> updates, error |-> ParamError(params[i])]
              ELSE LET u == ParamUpdate(params[i])
                   IN  ParseFold(shape, params, i + 1,
                                 IF u = None THEN updates
                                 ELSE SetField(updates, u[1][1], u[1][2]))

\* A frame is [shape, has, method, params_shape, params]: shape is the Python
\* type of the frame ("dict", "list", "none"), has the keys it holds,
\* params_shape the type of its params ("dict", "list", "int").
\* A data.get("method", ...) that takes a frame without a method for an
\* attribute update.
FrameMethodDefaultsToUpdate(data) ==
    IF "method" \in data.has
    THEN Some(data.method)
    ELSE Some("wskAttributeUpdateNtfy")

\* data.get("method")
FrameMethod(data) == IF "method" \in data.has THEN Some(data.method) ELSE None

\* data.get("params", {})
FrameParams(data) == IF "params" \in data.has THEN data.params ELSE <<>>

\* The body of parse_attribute_update inside its try: [updates, error].
\* data.get of a frame that is not a dict raises AttributeError, and the loop
\* over params that is a number raises TypeError.
ParseTry(data) ==
    IF data.shape # "dict" THEN [updates |-> <<>>, error |-> "AttributeError"]
    ELSE IF FrameMethod(data) # Some("wskAttributeUpdateNtfy")
         THEN [updates |-> <<>>, error |-> ""]
         ELSE IF "params" \in data.has /\ data.params_shape = "int"
              THEN [updates |-> <<>>, error |-> "TypeError"]
              ELSE ParseFold(IF "params" \in data.has
                             THEN data.params_shape ELSE "dict",
                             FrameParams(data), 1, <<>>)

\* An except clause for KeyError and ValueError only.
CaughtKeyValueOnly(error) == error \in {"KeyError", "ValueError"}

\* `except Exception`: every exception the body can raise is one.
Caught(error) ==
    error \in {"AttributeError", "TypeError", "ValueError", "KeyError",
               "IndexError"}

\* The exception that leaves parse_attribute_update, "" when none does.
ParseEscapes(data) ==
    IF ParseTry(data).error # "" /\ ~Caught(ParseTry(data).error)
    THEN ParseTry(data).error
    ELSE ""

\* parse_attribute_update: the dict of decoded fields.  The except clause
\* falls through to `return updates`: what was decoded before the exception.
ParseAttributeUpdate(data) ==
    IF ParseEscapes(data) # "" THEN <<>> ELSE ParseTry(data).updates

\* log.error calls of parse_attribute_update.
ParseLogged(data) ==
    IF ParseTry(data).error # "" /\ Caught(ParseTry(data).error) THEN 1 ELSE 0

\* ------------------------------------------------------- device bridge
\* The display values right after RyobiDevice.__init__ (lines 312-315): the
\* entities that are not published keep no value.
Unset == "unset"

\* A bridge whose constructor publishes nothing.
NewDeviceUnset ==
    [cover |-> Unset, light |-> Unset, vacation |-> Unset,
     battery |-> Unset, motion |-> Unset, wifi |-> None,
     park_assist |-> Unset, inflator |-> Unset, bt_speaker |-> Unset,
     fan |-> None]

NewDevice ==
    [cover |-> "closed", light |-> "off", vacation |-> "off",
     battery |-> Unset, motion |-> Unset, wifi |-> None,
     park_assist |-> Unset, inflator |-> Unset, bt_speaker |-> Unset,
     fan |-> None]

OnOff(truthy) == IF truthy THEN "on" ELSE "off"

update_door_state(dev, state) ==
    IF state \in {"open", "closed", "opening", "closing", "stopped"}
    THEN [dev EXCEPT !.cover = state]
    ELSE dev

update_light_state(dev, state) == [dev EXCEPT !.light = OnOff(state)]

\* An update_battery_level that raises the alert above the threshold.
update_battery_level_inverted(dev, level) ==
    [dev EXCEPT !.battery = OnOff(level > BATTERY_LOW_THRESHOLD)]

update_battery_level(dev, level) ==
    [dev EXCEPT !.battery = OnOff(level < BATTERY_LOW_THRESHOLD)]

update_motion_state(dev, state) == [dev EXCEPT !.motion = OnOff(state # 0)]

update_wifi_rssi(dev, rssi) == [dev EXCEPT !.wifi = Some(rssi)]

update_vacation_mode(dev, state) == [dev EXCEPT !.vacation = OnOff(state # 0)]

update_park_assist(dev, state) == [dev EXCEPT !.park_assist = OnOff(state # 0)]

update_inflator(dev, state) == [dev EXCEPT !.inflator = OnOff(state # 0)]

update_bt_speaker(dev, state) == [dev EXCEPT !.bt_speaker = OnOff(state # 0)]

update_fan_speed(dev, speed) == [dev EXCEPT !.fan = Some(speed)]

\* One update_* call.
ApplyField(dev, field, value) ==
    CASE field = "door_state"    -> update_door_state(dev, value)
      [] field = "light_state"   -> update_light_state(dev, value)
      [] field = "battery_level" -> update_battery_level(dev, value)
      [] field = "motion"        -> update_motion_state(dev, value)
      [] field = "wifi_rssi"     -> update_wifi_rssi(dev, value)
      [] field = "vacation_mode" -> update_vacation_mode(dev, value)
      [] field = "park_assist"   -> update_park_assist(dev, value)
      [] field = "inflator"      -> update_inflator(dev, value)
      [] field = "bt_speaker"    -> update_bt_speaker(dev, value)
      [] field = "fan"           -> update_fan_speed(dev, value)

\* The entity methods one update_* call invokes, each of which publishes the
\* entity's state once: update_door_state has no branch for a state other
\* than its five, every other update_* calls one method whatever the value.
Notified(field, value) ==
    IF field = "door_state"
    THEN (IF value \in {"open", "closed", "opening", "closing", "stopped"}
          THEN 1 ELSE 0)
    ELSE 1

\* The order of the `if ... in updates` tests of handle_device_update.
UpdateOrder ==
    <<"door_state", "light_state", "battery_level", "motion", "wifi_rssi",
      "vacation_mode", "park_assist", "inflator", "bt_speaker", "fan">>

\* The update_* calls handle_device_update makes for a dict of updates, in
\* the order it makes them: a sequence of <<field, value>>.
RECURSIVE UpdateCallsFrom(_, _)
UpdateCallsFrom(updates, i) ==
    IF i > Len(UpdateOrder) THEN <<>>
    ELSE (IF UpdateOrder[i] \in DOMAIN updates
          THEN <<(<<UpdateOrder[i], updates[UpdateOrder[i]]>>)>>
          ELSE <<>>) \o UpdateCallsFrom(updates, i + 1)

UpdateCalls(updates) == UpdateCallsFrom(updates, 1)

\* The device after a sequence of update_* calls.
RECURSIVE ApplyCalls(_, _)
ApplyCalls(dev, calls) ==
    IF calls = <<>> THEN dev
    ELSE ApplyCalls(ApplyField(dev, calls[1][1], calls[1][2]), Tail(calls))

\* DeviceManager.setup_device lines 598-618: the initial update_* calls, made
\* for the DeviceData fields that are not None (light through bool()).
InitialCalls(data) ==
    UpdateCalls([f \in DOMAIN data |->
                    IF f = "light_state" THEN data[f] # 0 ELSE data[f]])

\* ---------------------------------------------------------------- inputs
\* Device type maps of the snapshots the vendor returns in this model.
GarageDoor7 ==
    [key |-> <<"garageDoor", "_", "7">>,
     at |-> [doorState |-> 0, sensorFlag |-> 0, vacationMode |-> 0]]

GarageLight7 == [key |-> <<"garageLight", "_", "7">>, at |-> [lightState |-> 0]]

DtmFull ==
    <<GarageDoor7, GarageLight7,
      [key |-> <<"backupCharger", "_", "8">>, at |-> [chargeLevel |-> 0]]>>

DtmLightOnly ==
    <<[key |-> <<"garageLight", "_", "3">>, at |-> [lightState |-> 1]]>>

SetupReplies == {ReplyOk(DtmFull), ReplyOk(DtmLightOnly), ReplyConnError}


\* ----------------------------------------------------------------- state
VARIABLES
    driver,           \* who drives the objects: "run" (RyobiGDO2MQTT._run),
                      \* "coordinator" (ServiceCoordinator), or a caller of
                      \* the client ("client", "account")
    pc,               \* where the main task is
    idx,              \* position in the loop over all_devices / websockets
    session,          \* the shared aiohttp session: "open" or "released"
    exitCode,         \* None while the process runs
    api_key,          \* RyobiApiClient.api_key
    all_devices,      \* the devices get_devices() returned, in order
    device_modules,   \* RyobiApiClient._device_modules
    websockets,       \* keys of the websockets dict
    ws,               \* state of each device's RyobiWebSocket
    devices,          \* DeviceManager.devices: id -> display values
    setupFailed,      \* devices whose own setup raised
    h,                \* the command handler running on the MQTT thread
    nCmds,            \* commands received so far
    futs,             \* futures created by run_coroutine_threadsafe
    pending_futures,  \* RyobiDevice._pending_futures
    sent,             \* tuples written to each Transport
    errors,           \* log.error calls of send_command, per device
    foreignWrites,    \* device state written by the MQTT thread itself
    clK,              \* ServiceCoordinator.cleanup: position in its loops
    clIter,           \* RyobiDevice.cleanup: iterator over _pending_futures
    cleanupRes,       \* outcome of each device's cleanup()
    atStart,          \* _pending_futures when the device's cleanup() began,
                      \* and whether each was pending with its callback attached
    rx,               \* frames each Transport delivered, in order
    nHandled,         \* frames each callback has handled
    applied,          \* update_* calls made for frames: <<frame no, field, value>>
    nFrames,          \* frames delivered so far
    decoded,          \* each callback's last parse_attribute_update call
    fetches,          \* update_device calls a caller made on the client itself
    snapshot,         \* setup_device: the DeviceData update_device returned
    lastCall,         \* the client's last call on the account endpoints
    requests          \* HTTP requests the session was asked to make

vars ==
    <<driver, pc, idx, session, exitCode, api_key, all_devices, device_modules,
      websockets, ws, devices, setupFailed, h, nCmds, futs, pending_futures,
      sent, errors, foreignWrites, clK, clIter, cleanupRes, atStart, rx,
      nHandled, applied, nFrames, decoded, fetches, snapshot,
      lastCall, requests>>

apiVars == <<api_key, all_devices>>
cmdVars == <<h, nCmds, futs, pending_futures, sent, errors, foreignWrites>>
cleanupVars == <<clK, clIter, cleanupRes, atStart>>
frameVars == <<rx, nHandled, applied, nFrames, decoded>>
clientVars == <<fetches, snapshot, lastCall, requests>>

Idle ==
    [pc |-> "idle", kind |-> "", payload |-> "", module |-> "", value |-> 0,
     attr |-> None, post |-> "", fut |-> 0]

NoIter == [on |-> FALSE, used |-> 0, visited |-> {}]

\* The state after construction, whoever drives the objects.
Start ==
    /\ pc = "init"
    /\ idx = 0
    /\ session = "open"
    /\ exitCode = None
    /\ api_key = None
    /\ all_devices = <<>>
    /\ device_modules = <<>>
    /\ websockets = {}
    /\ ws = [d \in Devices |-> "none"]
    /\ devices = <<>>
    /\ setupFailed = {}
    /\ h = [d \in Devices |-> Idle]
    /\ nCmds = 0
    /\ futs = <<>>
    /\ pending_futures = [d \in Devices |-> {}]
    /\ sent = [d \in Devices |-> <<>>]
    /\ errors = [d \in Devices |-> 0]
    /\ foreignWrites = [d \in Devices |-> {}]
    /\ clK = 0
    /\ clIter = NoIter
    /\ cleanupRes = [d \in Devices |-> "none"]
    /\ atStart = [d \in Devices |-> [set |-> {}, armed |-> TRUE]]
    /\ rx = [d \in Devices |-> <<>>]
    /\ nHandled = [d \in Devices |-> 0]
    /\ applied = [d \in Devices |-> <<>>]
    /\ nFrames = 0
    /\ decoded = [d \in Devices |-> None]
    /\ fetches = <<>>
    /\ snapshot = None
    /\ lastCall = None
    /\ requests = 0

Init == driver \in {"run", "coordinator"} /\ Start

\* The process ends: the session is released on the way out.
Exit(code) ==
    /\ pc' = "exited"
    /\ session' = "released"
    /\ exitCode' = Some(code)

\* -------------------------------------------- RyobiGDO2MQTT._run (driver "run")
\* _run lines 71-77: get_api_key() returns True or raises; an exception
\* leaves `async with` (the session is closed) and __call__ exits with 1.
RunAuthenticate(ok) ==
    /\ driver = "run" /\ pc = "init"
    /\ IF ok
       THEN /\ api_key' = Some("apiKey")
            /\ pc' = "run_discover"
            /\ UNCHANGED <<session, exitCode>>
       ELSE /\ Exit(1)
            /\ UNCHANGED api_key
    /\ UNCHANGED <<driver, clientVars, idx, all_devices, device_modules, websockets, ws,
                   devices, setupFailed, cmdVars, cleanupVars, frameVars>>

\* _run lines 79-85: get_devices() returns a non-empty mapping or raises.
RunDiscover(ok) ==
    /\ driver = "run" /\ pc = "run_discover"
    /\ IF ok
       THEN /\ all_devices' = <<"d1", "d2">>
            /\ idx' = 1
            /\ pc' = "run_setup"
            /\ UNCHANGED <<session, exitCode>>
       ELSE /\ Exit(1)
            /\ UNCHANGED <<all_devices, idx>>
    /\ UNCHANGED <<driver, clientVars, api_key, device_modules, websockets, ws, devices,
                   setupFailed, cmdVars, cleanupVars, frameVars>>

\* _run lines 97-124, one iteration of the loop over all_devices.  Nothing
\* catches an exception of update_device.  After a successful fetch the
\* Transport is constructed and registered (108-115); RyobiDevice(...) is then
\* called without the `loop` argument that RyobiDevice.__init__
\* (device_manager.py 242-250) requires, which raises TypeError before any
\* entity exists.  Either exception ends _run: lines 125-144 (registering the
\* device, starting ws.listen(), gathering the tasks, closing the Transports
\* on cancellation) are never reached.
RunSetupDevice(reply) ==
    /\ driver = "run" /\ pc = "run_setup"
    /\ LET d == all_devices[idx]
       IN  /\ device_modules' = UpdateDeviceModules(device_modules, d, reply)
           /\ setupFailed' = setupFailed \cup {d}
           /\ IF UpdateRaises(reply)
              THEN UNCHANGED <<websockets, ws>>
              ELSE /\ websockets' = websockets \cup {d}
                   /\ ws' = [ws EXCEPT ![d] = "created"]
    /\ Exit(1)
    /\ UNCHANGED <<driver, clientVars, idx, apiVars, devices, cmdVars, cleanupVars,
                   frameVars>>

\* The main task is cancelled while it awaits (Ctrl-C): CancelledError leaves
\* `async with`, __call__ logs the KeyboardInterrupt and returns.
RunCancelled ==
    /\ driver = "run" /\ pc \in {"init", "run_discover", "run_setup"}
    /\ Exit(0)
    /\ UNCHANGED <<driver, clientVars, idx, apiVars, device_modules, websockets, ws,
                   devices, setupFailed, cmdVars, cleanupVars, frameVars>>

\* ------------------------------------------------ coordinator (driver "coordinator")
\* The tasks of the event loop other than the main task run only while the
\* main task is suspended in an await.
LoopFree == pc \in {"init", "fetch", "running", "closing"}

\* Authentication and discovery as section 4.4 describes them; a failure
\* ends the process with a non-zero exit.
Bootstrap(ok) ==
    /\ driver = "coordinator" /\ pc = "init"
    /\ IF ok
       THEN /\ api_key' = Some("apiKey")
            /\ all_devices' = <<"d1", "d2">>
            /\ idx' = 1
            /\ pc' = "setup"
            /\ UNCHANGED <<session, exitCode>>
       ELSE /\ Exit(1)
            /\ UNCHANGED <<api_key, all_devices, idx>>
    /\ UNCHANGED <<driver, clientVars, device_modules, websockets, ws, devices,
                   setupFailed, cmdVars, cleanupVars, frameVars>>

\* ServiceCoordinator.setup_device lines 69-79 and DeviceManager.setup_device
\* up to its await of update_device: the Transport is constructed and
\* registered before the snapshot is fetched.
CoordSetupBegin ==
    /\ driver = "coordinator" /\ pc = "setup" /\ idx <= Len(all_devices)
    /\ websockets' = websockets \cup {all_devices[idx]}
    /\ ws' = [ws EXCEPT ![all_devices[idx]] = "created"]
    /\ pc' = "fetch"
    /\ UNCHANGED <<driver, clientVars, idx, session, exitCode, apiVars, device_modules,
                   devices, setupFailed, cmdVars, cleanupVars, frameVars>>

\* DeviceManager.setup_device from the return of update_device on: the
\* bridge is constructed, registered, and seeded with the snapshot values.
\* When update_device raised, the caller logs it and goes on to the next
\* device (tests/test_service.py, test_setup_devices_handles_failure).
CoordSetupFinish(reply) ==
    /\ driver = "coordinator" /\ pc = "fetch"
    /\ LET d == all_devices[idx]
       IN  /\ device_modules' = UpdateDeviceModules(device_modules, d, reply)
           /\ IF UpdateRaises(reply)
              THEN /\ setupFailed' = setupFailed \cup {d}
                   /\ idx' = idx + 1
                   /\ pc' = "setup"
                   /\ UNCHANGED devices
              ELSE /\ devices' =
                        [x \in (DOMAIN devices) \cup {d} |->
                            IF x = d
                            THEN ApplyCalls(NewDevice,
                                     InitialCalls(DeviceDataOf(reply.dtm)))
                            ELSE devices[x]]
                   /\ pc' = "listen"
                   /\ UNCHANGED <<setupFailed, idx>>
    /\ UNCHANGED <<driver, clientVars, session, exitCode, apiVars, websockets, ws,
                   cmdVars, cleanupVars, frameVars>>

\* The receive loop of the device just set up is started (section 4.4).
StartListen ==
    /\ driver = "coordinator" /\ pc = "listen"
    /\ ws' = [ws EXCEPT ![all_devices[idx]] = "listening"]
    /\ idx' = idx + 1
    /\ pc' = "setup"
    /\ UNCHANGED <<driver, clientVars, session, exitCode, apiVars, device_modules,
                   websockets, devices, setupFailed, cmdVars, cleanupVars,
                   frameVars>>

\* All devices went through setup: the service runs.
SetupDone ==
    /\ driver = "coordinator" /\ pc = "setup" /\ idx > Len(all_devices)
    /\ pc' = "running"
    /\ UNCHANGED <<driver, clientVars, idx, session, exitCode, apiVars, device_modules,
                   websockets, ws, devices, setupFailed, cmdVars, cleanupVars,
                   frameVars>>

\* ------------------------------------------- command handlers (MQTT thread)
\* The entity callbacks are invoked on the MQTT client's network thread; each
\* action below is one stretch of a callback between two points where the
\* event loop thread can observe it.  One callback runs per device at a time.
CanReceive(d) ==
    /\ pc # "exited"
    /\ d \in DOMAIN devices
    /\ h[d].pc = "idle"
    /\ nCmds < MaxCmds

\* The display value a handler writes once send_command has returned.
PostDisplay(dev, post) ==
    CASE post = "stopped"      -> [dev EXCEPT !.cover = "stopped"]
      [] post = "light_on"     -> [dev EXCEPT !.light = "on"]
      [] post = "light_off"    -> [dev EXCEPT !.light = "off"]
      [] post = "vacation_on"  -> [dev EXCEPT !.vacation = "on"]
      [] post = "vacation_off" -> [dev EXCEPT !.vacation = "off"]
      [] post = "park_assist_on"  -> [dev EXCEPT !.park_assist = "on"]
      [] post = "park_assist_off" -> [dev EXCEPT !.park_assist = "off"]
      [] post = "inflator_on"     -> [dev EXCEPT !.inflator = "on"]
      [] post = "inflator_off"    -> [dev EXCEPT !.inflator = "off"]
      [] post = "bt_speaker_on"   -> [dev EXCEPT !.bt_speaker = "on"]
      [] post = "bt_speaker_off"  -> [dev EXCEPT !.bt_speaker = "off"]
      [] OTHER                 -> dev

PostField(post) ==
    CASE post = "stopped" -> {"cover"}
      [] post \in {"light_on", "light_off"} -> {"light"}
      [] post \in {"vacation_on", "vacation_off"} -> {"vacation"}
      [] post \in {"park_assist_on", "park_assist_off"} -> {"park_assist"}
      [] post \in {"inflator_on", "inflator_off"} -> {"inflator"}
      [] post \in {"bt_speaker_on", "bt_speaker_off"} -> {"bt_speaker"}
      [] post = "fan" -> {"fan"}
      [] OTHER -> {}

Call(kind, payload, module, value, attr, post) ==
    [pc |-> "send", kind |-> kind, payload |-> payload, module |-> module,
     value |-> value, attr |-> attr, post |-> post, fut |-> 0]

\* _handle_door_command up to its call of send_command.
HandleDoorCommand(d, payload) ==
    /\ CanReceive(d)
    /\ nCmds' = nCmds + 1
    /\ IF payload = "OPEN" THEN
            /\ devices' = [devices EXCEPT ![d].cover = "opening"]
            /\ foreignWrites' = [foreignWrites EXCEPT ![d] = @ \cup {"cover"}]
            /\ h' = [h EXCEPT ![d] = Call("door", payload, "garageDoor",
                                          DoorCommands.OPEN, None, "")]
       ELSE IF payload = "CLOSE" THEN
            /\ devices' = [devices EXCEPT ![d].cover = "closing"]
            /\ foreignWrites' = [foreignWrites EXCEPT ![d] = @ \cup {"cover"}]
            /\ h' = [h EXCEPT ![d] = Call("door", payload, "garageDoor",
                                          DoorCommands.CLOSE, None, "")]
       ELSE IF payload = "STOP" THEN
            /\ h' = [h EXCEPT ![d] = Call("door", payload, "garageDoor",
                                          DoorCommands.STOP, None, "stopped")]
            /\ UNCHANGED <<devices, foreignWrites>>
       ELSE UNCHANGED <<devices, foreignWrites, h>>
    /\ UNCHANGED <<driver, clientVars, pc, idx, session, exitCode, apiVars, device_modules,
                   websockets, ws, setupFailed, futs, pending_futures, sent,
                   errors, cleanupVars, frameVars>>

\* _handle_light_command up to its call of send_command.
HandleLightCommand(d, payload) ==
    /\ CanReceive(d)
    /\ nCmds' = nCmds + 1
    /\ IF payload = "ON" THEN
            h' = [h EXCEPT ![d] = Call("light", payload, "garageLight",
                                       LightStates.ON, None, "light_on")]
       ELSE IF payload = "OFF" THEN
            h' = [h EXCEPT ![d] = Call("light", payload, "garageLight",
                                       LightStates.OFF, None, "light_off")]
       ELSE UNCHANGED h
    /\ UNCHANGED <<driver, clientVars, pc, idx, session, exitCode, apiVars, device_modules,
                   websockets, ws, devices, setupFailed, futs, pending_futures,
                   sent, errors, foreignWrites, cleanupVars, frameVars>>

\* _handle_vacation_command up to its call of send_command.
HandleVacationCommand(d, payload) ==
    /\ CanReceive(d)
    /\ nCmds' = nCmds + 1
    /\ LET value == IF payload = "ON" THEN 1 ELSE 0
       IN  h' = [h EXCEPT ![d] =
                    Call("vacation", payload, "garageDoor", value,
                         Some("vacationMode"),
                         IF value # 0 THEN "vacation_on" ELSE "vacation_off")]
    /\ UNCHANGED <<driver, clientVars, pc, idx, session, exitCode, apiVars, device_modules,
                   websockets, ws, devices, setupFailed, futs, pending_futures,
                   sent, errors, foreignWrites, cleanupVars, frameVars>>

\* _handle_park_assist_command, _handle_inflator_command and
\* _handle_bt_speaker_command up to their call of send_command.
HandleSwitchCommand(d, switch, payload) ==
    /\ CanReceive(d)
    /\ nCmds' = nCmds + 1
    /\ LET value == IF payload = "ON" THEN 1 ELSE 0
           module == CASE switch = "park_assist" -> "parkAssistLaser"
                       [] switch = "inflator" -> "inflator"
                       [] switch = "bt_speaker" -> "btSpeaker"
       IN  h' = [h EXCEPT ![d] =
                    Call(switch, payload, module, value, None,
                         IF value # 0 THEN switch \o "_on"
                         ELSE switch \o "_off")]
    /\ UNCHANGED <<driver, clientVars, pc, idx, session, exitCode, apiVars, device_modules,
                   websockets, ws, devices, setupFailed, futs, pending_futures,
                   sent, errors, foreignWrites, cleanupVars, frameVars>>

\* _handle_fan_command up to its call of send_command: int() of a payload
\* that is not a number raises ValueError and the handler ends there.
HandleFanCommand(d, payload) ==
    /\ CanReceive(d)
    /\ nCmds' = nCmds + 1
    /\ IF \A i \in 1..Len(payload) : payload[i] \in DigitTokens
       THEN h' = [h EXCEPT ![d] = Call("fan", "", "fan", ToInt(payload),
                                       None, "fan")]
       ELSE UNCHANGED h
    /\ UNCHANGED <<driver, clientVars, pc, idx, session, exitCode, apiVars, device_modules,
                   websockets, ws, devices, setupFailed, futs, pending_futures,
                   sent, errors, foreignWrites, cleanupVars, frameVars>>

\* CommandHandler.send_command called with a module name of the caller's
\* choice.
CallSendCommand(d, module, value) ==
    /\ CanReceive(d)
    /\ nCmds' = nCmds + 1
    /\ h' = [h EXCEPT ![d] = Call("direct", "", module, value, None, "")]
    /\ UNCHANGED <<driver, clientVars, pc, idx, session, exitCode, apiVars, device_modules,
                   websockets, ws, devices, setupFailed, futs, pending_futures,
                   sent, errors, foreignWrites, cleanupVars, frameVars>>

\* A send_command that returns silently when the module index has no entry.
send_command_silent(mods, d, module, value, attribute) ==
    IF module \notin DOMAIN MODULES
    THEN [errors |-> 1, scheduled |-> None]
    ELSE IF GetModule(mods, d, module) = None
    THEN [errors |-> 0, scheduled |-> None]
    ELSE [errors |-> 0,
          scheduled |->
              Some(<<GetModule(mods, d, module)[1],
                     MODULES[module].module_type,
                     IF attribute # None THEN attribute[1]
                     ELSE MODULES[module].attribute_name,
                     value>>)]

\* A send_command that always sends the module's default attribute.
send_command_default_attr(mods, d, module, value, attribute) ==
    IF module \notin DOMAIN MODULES
    THEN [errors |-> 1, scheduled |-> None]
    ELSE IF GetModule(mods, d, module) = None
    THEN [errors |-> 1, scheduled |-> None]
    ELSE [errors |-> 0,
          scheduled |->
              Some(<<GetModule(mods, d, module)[1],
                     MODULES[module].module_type,
                     MODULES[module].attribute_name,
                     value>>)]

\* CommandHandler.send_command lines 218-234 as a function of its inputs: the
\* number of log.error calls, and the tuple passed to send_message (None when
\* the command is refused).
send_command(mods, d, module, value, attribute) ==
    IF module \notin DOMAIN MODULES
    THEN [errors |-> 1, scheduled |-> None]
    ELSE IF GetModule(mods, d, module) = None
    THEN [errors |-> 1, scheduled |-> None]
    ELSE [errors |-> 0,
          scheduled |->
              Some(<<GetModule(mods, d, module)[1],
                     MODULES[module].module_type,
                     IF attribute # None THEN attribute[1]
                     ELSE MODULES[module].attribute_name,
                     value>>)]

\* The handler's code after send_command returned.
HandlerReturn(d) ==
    /\ h' = [h EXCEPT ![d] = Idle]
    /\ devices' =
           [devices EXCEPT ![d] =
               IF h[d].post = "fan"
               THEN update_fan_speed(@, h[d].value)
               ELSE PostDisplay(@, h[d].post)]
    /\ foreignWrites' =
           [foreignWrites EXCEPT ![d] = @ \cup PostField(h[d].post)]

\* send_command lines 218-234: either an error is logged and the call
\* returns, or run_coroutine_threadsafe creates the future.
SendCommand(d) ==
    /\ pc # "exited" /\ h[d].pc = "send"
    /\ LET r == send_command(device_modules, d, h[d].module, h[d].value,
                             h[d].attr)
       IN  /\ errors' = [errors EXCEPT ![d] = @ + r.errors]
           /\ IF r.scheduled = None
              THEN /\ HandlerReturn(d)
                   /\ UNCHANGED futs
              ELSE /\ futs' = Append(futs,
                                [dev |-> d, args |-> r.scheduled[1],
                                 state |-> "pending", cb |-> FALSE])
                   /\ h' = [h EXCEPT ![d].pc = "add", ![d].fut = Len(futs) + 1]
                   /\ UNCHANGED <<devices, foreignWrites>>
    /\ UNCHANGED <<driver, clientVars, pc, idx, session, exitCode, apiVars, device_modules,
                   websockets, ws, setupFailed, nCmds, pending_futures, sent,
                   cleanupVars, frameVars>>

\* send_command line 235: _pending_futures.add(future), on the MQTT thread.
SendCommandAdd(d) ==
    /\ pc # "exited" /\ h[d].pc = "add"
    /\ pending_futures' = [pending_futures EXCEPT ![d] = @ \cup {h[d].fut}]
    /\ foreignWrites' =
           [foreignWrites EXCEPT ![d] = @ \cup {"_pending_futures"}]
    /\ h' = [h EXCEPT ![d].pc = "callback"]
    /\ UNCHANGED <<driver, clientVars, pc, idx, session, exitCode, apiVars, device_modules,
                   websockets, ws, devices, setupFailed, nCmds, futs, sent,
                   errors, cleanupVars, frameVars>>

\* send_command line 236: add_done_callback runs the callback at once, in the
\* calling thread, when the future is already done or cancelled; the handler
\* then finishes.
SendCommandCallback(d) ==
    /\ pc # "exited" /\ h[d].pc = "callback"
    /\ IF futs[h[d].fut].state # "pending"
       THEN /\ pending_futures' =
                   [pending_futures EXCEPT ![d] = @ \ {h[d].fut}]
            /\ UNCHANGED futs
       ELSE /\ futs' = [futs EXCEPT ![h[d].fut].cb = TRUE]
            /\ UNCHANGED pending_futures
    /\ HandlerReturn(d)
    /\ UNCHANGED <<driver, clientVars, pc, idx, session, exitCode, apiVars, device_modules,
                   websockets, ws, setupFailed, nCmds, sent, errors,
                   cleanupVars, frameVars>>

\* ------------------------------------------------------ event loop tasks
\* The coroutine scheduled by run_coroutine_threadsafe runs: the tuple is
\* written to the Transport unless it is closed, the future completes and its
\* done callback (when attached) discards it from _pending_futures.
RunTask(f) ==
    /\ pc # "exited" /\ LoopFree
    /\ f \in 1..Len(futs) /\ futs[f].state = "pending"
    /\ futs' = [futs EXCEPT ![f].state = "done"]
    /\ sent' = IF ws[futs[f].dev] = "closed" THEN sent
               ELSE [sent EXCEPT ![futs[f].dev] = Append(@, futs[f].args)]
    /\ pending_futures' =
           IF futs[f].cb
           THEN [pending_futures EXCEPT ![futs[f].dev] = @ \ {f}]
           ELSE pending_futures
    /\ UNCHANGED <<driver, clientVars, pc, idx, session, exitCode, apiVars, device_modules,
                   websockets, ws, devices, setupFailed, h, nCmds, errors,
                   foreignWrites, cleanupVars, frameVars>>

\* Frames of the push stream.  A parameter is [key, value]; the value stands
\* for the scalar whether or not the vendor wrapped it in {"value": ...}.
ParamOf(key, box, kind, value) ==
    [key |-> key, box |-> box, kind |-> kind, value |-> value]

Param(key, value) == ParamOf(key, "dict", "int", value)

DoorKey7 == <<"garageDoor", "_", "7", ".", "doorState">>
DoorKey9 == <<"garageDoor", "_", "9", ".", "doorState">>
LightKey7 == <<"garageLight", "_", "7", ".", "lightState">>
SensorKey7 == <<"garageDoor", "_", "7", ".", "sensorFlag">>

FrameOf(method, params) ==
    [shape |-> "dict", has |-> {"method", "params"}, method |-> method,
     params_shape |-> "dict", params |-> params]

UpdateFrame(params) == FrameOf("wskAttributeUpdateNtfy", params)

Frames ==
    {UpdateFrame(<<Param(DoorKey7, c)>>) : c \in {0, 1, 2, 3, 4, 9}}
    \cup {UpdateFrame(<<Param(<<"topic">>, 0), Param(LightKey7, 1),
                        Param(SensorKey7, 1)>>),
          UpdateFrame(<<Param(LightKey7, 1), Param(DoorKey7, 1)>>),
          UpdateFrame(<<Param(DoorKey7, 1), Param(DoorKey9, 2)>>),
          FrameOf("wskDeviceStateNtfy", <<Param(DoorKey7, 1)>>)}

\* The receive loop of device d reads a frame and awaits its callback: the
\* callback of create_websocket_callback with signal "data", and
\* DeviceManager.handle_device_update, which decodes the frame and applies its
\* fields without suspension.  A caller that drives the objects itself can
\* also call handle_device_update with an id that is not registered.
HandleDeviceUpdate(d, fr) ==
    /\ pc # "exited" /\ LoopFree
    /\ \/ ws[d] = "listening"
       \/ driver = "client" /\ d \notin DOMAIN devices
    /\ nFrames < MaxFrames
    /\ nFrames' = nFrames + 1
    /\ rx' = [rx EXCEPT ![d] = Append(@, fr)]
    /\ nHandled' = [nHandled EXCEPT ![d] = @ + 1]
    /\ LET n == nHandled[d] + 1
           updates == ParseAttributeUpdate(fr)
           calls == UpdateCalls(updates)
       IN  IF d \in DOMAIN devices
           THEN /\ decoded' =
                       [decoded EXCEPT ![d] =
                           Some([updates |-> updates,
                                 logged |-> ParseLogged(fr),
                                 escaped |-> ParseEscapes(fr)])]
                /\ devices' = [devices EXCEPT ![d] = ApplyCalls(@, calls)]
                /\ applied' =
                       [applied EXCEPT ![d] =
                           @ \o [i \in 1..Len(calls) |->
                                    <<n, calls[i][1], calls[i][2]>>]]
           ELSE UNCHANGED <<devices, applied, decoded>>
    /\ UNCHANGED <<driver, clientVars, pc, idx, session, exitCode, apiVars, device_modules,
                   websockets, ws, setupFailed, cmdVars, cleanupVars>>

\* ------------------------------------------------------------- shutdown
\* device_manager.devices.values() and websockets.values(): insertion order.
DeviceOrder == SelectSeq(all_devices, LAMBDA d : d \in DOMAIN devices)
WebsocketOrder == SelectSeq(all_devices, LAMBDA d : d \in websockets)

\* Shutdown begins (section 4.4): every receive loop is cancelled, then
\* ServiceCoordinator.cleanup is awaited.
Shutdown ==
    /\ driver = "coordinator" /\ pc = "running"
    /\ ws' = [d \in Devices |-> IF ws[d] = "listening" THEN "stopped" ELSE ws[d]]
    /\ pc' = "cleanup"
    /\ clK' = 1
    /\ UNCHANGED <<driver, clientVars, idx, session, exitCode, apiVars, device_modules,
                   websockets, devices, setupFailed, cmdVars, clIter,
                   cleanupRes, atStart, frameVars>>

\* RyobiDevice.cleanup lines 532-544, for the next device of
\* ServiceCoordinator.cleanup's first loop: _pending_tasks is empty, and the
\* iteration over _pending_futures begins.
CleanupBegin ==
    /\ pc = "cleanup" /\ ~clIter.on /\ clK <= Len(DeviceOrder)
    /\ LET d == DeviceOrder[clK]
       IN  /\ cleanupRes' = [cleanupRes EXCEPT ![d] = "running"]
           /\ atStart' =
                  [atStart EXCEPT ![d] =
                      [set |-> pending_futures[d],
                       armed |-> \A f \in pending_futures[d] :
                                     futs[f].state = "pending" /\ futs[f].cb]]
           /\ clIter' = [on |-> TRUE, used |-> Cardinality(pending_futures[d]),
                         visited |-> {}]
    /\ UNCHANGED <<driver, clientVars, pc, idx, session, exitCode, apiVars, device_modules,
                   websockets, ws, devices, setupFailed, cmdVars, clK,
                   frameVars>>

\* The set iterator finds the set's size changed since the iteration began:
\* RuntimeError leaves RyobiDevice.cleanup and ServiceCoordinator.cleanup.
CleanupRaise ==
    /\ pc = "cleanup" /\ clIter.on
    /\ Cardinality(pending_futures[DeviceOrder[clK]]) # clIter.used
    /\ cleanupRes' = [cleanupRes EXCEPT ![DeviceOrder[clK]] = "raised"]
    /\ clIter' = NoIter
    /\ pc' = "cleanup_failed"
    /\ UNCHANGED <<driver, clientVars, idx, session, exitCode, apiVars, device_modules,
                   websockets, ws, devices, setupFailed, cmdVars, clK, atStart,
                   frameVars>>

\* RyobiDevice.cleanup lines 545-546, one iteration: a future that is not
\* done is cancelled; cancel() runs its done callback at once, which discards
\* the future from the set being iterated.
CleanupCancel(f) ==
    /\ pc = "cleanup" /\ clIter.on
    /\ Cardinality(pending_futures[DeviceOrder[clK]]) = clIter.used
    /\ f \in pending_futures[DeviceOrder[clK]] \ clIter.visited
    /\ clIter' = [clIter EXCEPT !.visited = @ \cup {f}]
    /\ IF futs[f].state = "pending"
       THEN /\ futs' = [futs EXCEPT ![f].state = "cancelled"]
            /\ pending_futures' =
                   IF futs[f].cb
                   THEN [pending_futures EXCEPT ![DeviceOrder[clK]] = @ \ {f}]
                   ELSE pending_futures
       ELSE UNCHANGED <<futs, pending_futures>>
    /\ UNCHANGED <<driver, clientVars, pc, idx, session, exitCode, apiVars, device_modules,
                   websockets, ws, devices, setupFailed, h, nCmds, sent, errors,
                   foreignWrites, clK, cleanupRes, atStart, frameVars>>

\* RyobiDevice.cleanup line 547: the iteration is over, the set is cleared
\* and cleanup() returns.
CleanupClear ==
    /\ pc = "cleanup" /\ clIter.on
    /\ Cardinality(pending_futures[DeviceOrder[clK]]) = clIter.used
    /\ pending_futures[DeviceOrder[clK]] \subseteq clIter.visited
    /\ pending_futures' = [pending_futures EXCEPT ![DeviceOrder[clK]] = {}]
    /\ cleanupRes' = [cleanupRes EXCEPT ![DeviceOrder[clK]] = "returned"]
    /\ clIter' = NoIter
    /\ clK' = clK + 1
    /\ UNCHANGED <<driver, clientVars, pc, idx, session, exitCode, apiVars, device_modules,
                   websockets, ws, devices, setupFailed, h, nCmds, futs, sent,
                   errors, foreignWrites, atStart, frameVars>>

\* ServiceCoordinator.cleanup lines 88-93: the first loop is over, the
\* Transports are closed one by one, each close awaited.
CleanupDevicesDone ==
    /\ pc = "cleanup" /\ ~clIter.on /\ clK > Len(DeviceOrder)
    /\ pc' = "closing"
    /\ clK' = 1
    /\ UNCHANGED <<driver, clientVars, idx, session, exitCode, apiVars, device_modules,
                   websockets, ws, devices, setupFailed, cmdVars, clIter,
                   cleanupRes, atStart, frameVars>>

CloseWebsocket ==
    /\ pc = "closing" /\ clK <= Len(WebsocketOrder)
    /\ ws' = [ws EXCEPT ![WebsocketOrder[clK]] = "closed"]
    /\ clK' = clK + 1
    /\ UNCHANGED <<driver, clientVars, pc, idx, session, exitCode, apiVars, device_modules,
                   websockets, devices, setupFailed, cmdVars, clIter,
                   cleanupRes, atStart, frameVars>>

\* ServiceCoordinator.cleanup returned: the shared session is released and
\* the process ends (section 4.4).
ReleaseSession ==
    /\ pc = "closing" /\ clK > Len(WebsocketOrder)
    /\ Exit(0)
    /\ UNCHANGED <<driver, clientVars, idx, apiVars, device_modules, websockets, ws,
                   devices, setupFailed, cmdVars, cleanupVars, frameVars>>

\* ServiceCoordinator.cleanup raised: the exception reaches the process
\* boundary, which ends the process with a non-zero exit (section 7).
CleanupFailed ==
    /\ pc = "cleanup_failed"
    /\ Exit(1)
    /\ UNCHANGED <<driver, clientVars, idx, apiVars, device_modules, websockets, ws,
                   devices, setupFailed, cmdVars, cleanupVars, frameVars>>

\* ----------------------------------------------------------------- spec
\* The main task: startup under either driver, shutdown.
MainTask ==
    \/ \E ok \in BOOLEAN : RunAuthenticate(ok)
    \/ \E ok \in BOOLEAN : RunDiscover(ok)
    \/ \E reply \in SetupReplies : RunSetupDevice(reply)
    \/ RunCancelled
    \/ \E ok \in BOOLEAN : Bootstrap(ok)
    \/ CoordSetupBegin
    \/ \E reply \in SetupReplies : CoordSetupFinish(reply)
    \/ StartListen
    \/ SetupDone
    \/ Shutdown
    \/ CleanupBegin
    \/ CleanupRaise
    \/ \E f \in 1..Len(futs) : CleanupCancel(f)
    \/ CleanupClear
    \/ CleanupDevicesDone
    \/ CloseWebsocket
    \/ ReleaseSession
    \/ CleanupFailed

\* send_command and the scheduled send.
Dispatch ==
    \/ \E d \in Devices : SendCommand(d)
    \/ \E d \in Devices : SendCommandAdd(d)
    \/ \E d \in Devices : SendCommandCallback(d)
    \/ \E f \in 1..Len(futs) : RunTask(f)

\* The whole life of the process with commands arriving from MQTT.
Next ==
    \/ MainTask
    \/ \E d \in Devices, p \in {"OPEN", "CLOSE", "STOP", "TOGGLE"} :
          HandleDoorCommand(d, p)
    \/ \E d \in Devices, p \in {"ON", "OFF"} : HandleLightCommand(d, p)
    \/ \E d \in Devices, p \in {"ON", "OFF"} : HandleVacationCommand(d, p)
    \/ \E d \in Devices : CallSendCommand(d, "sprinkler", 1)
    \/ Dispatch

Spec == Init /\ [][Next]_vars

\* The running service with door commands and the push stream.
InitStream == Init /\ driver = "coordinator"

NextStream ==
    \/ \E ok \in BOOLEAN : Bootstrap(ok)
    \/ CoordSetupBegin
    \/ \E reply \in {ReplyOk(DtmFull), ReplyConnError} : CoordSetupFinish(reply)
    \/ StartListen
    \/ SetupDone
    \/ \E d \in Devices, p \in {"OPEN", "STOP"} : HandleDoorCommand(d, p)
    \/ Dispatch
    \/ \E d \in Devices, fr \in Frames : HandleDeviceUpdate(d, fr)

SpecStream == InitStream /\ [][NextStream]_vars

\* Startup of the service for every snapshot, and the first frames.
NextSetup ==
    \/ \E ok \in BOOLEAN : Bootstrap(ok)
    \/ CoordSetupBegin
    \/ \E reply \in SetupReplies : CoordSetupFinish(reply)
    \/ StartListen
    \/ SetupDone
    \/ \E d \in Devices, fr \in Frames : HandleDeviceUpdate(d, fr)

SpecSetup == InitStream /\ [][NextSetup]_vars

\* ------------------------------------------------- the client on its own
\* RyobiApiClient used directly: a caller fetches snapshots of its devices,
\* any number of times and in any order.
MaxFetches == 3

DoorAt(code) == [doorState |-> code, sensorFlag |-> 0, vacationMode |-> 0]

DtmTwoDoors ==
    <<GarageDoor7,
      [key |-> <<"garageDoor", "_", "9">>, at |-> DoorAt(1)],
      GarageLight7>>

DtmWide ==
    <<[key |-> <<"masterUnit">>, at |-> <<>>],
      [key |-> <<"garageDoor", "_", "1", "2">>, at |-> DoorAt(0)],
      [key |-> <<"my", "garageLight", "_", "4">>, at |-> [lightState |-> 1]],
      [key |-> <<"fan", "_", "0", "6">>, at |-> [speed |-> 50]]>>

\* The replies drawn: among the type maps, one without a known module, one
\* whose light lacks lightState, and one with keys that are not name_digits.
ClientReplies ==
    LET DtmNoModules == <<[key |-> <<"masterUnit">>, at |-> <<>>]>>
        DtmDoorMoved ==
            <<[key |-> <<"garageDoor", "_", "9">>, at |-> DoorAt(0)],
              [key |-> <<"garageLight", "_", "4">>, at |-> <<>>]>>
        DtmLightBroken == <<[key |-> <<"garageLight", "_", "7">>, at |-> <<>>]>>
        DtmBadKeys ==
            <<[key |-> <<"garageDoor">>, at |-> DoorAt(0)],
              [key |-> <<"ext", "_", "fan", "_", "7">>, at |-> [speed |-> 0]]>>
    IN  {ReplyOk(DtmFull), ReplyOk(DtmLightOnly), ReplyOk(DtmTwoDoors),
         ReplyOk(DtmWide), ReplyOk(DtmNoModules), ReplyOk(DtmLightBroken),
         ReplyOk(DtmDoorMoved), ReplyOk(DtmBadKeys), ReplyConnError, ReplyNoResult, ReplyEmptyResult,
         ReplyNoTypeMap}

\* One update_device(d) call and what became of it.
UpdateDevice(d, reply) ==
    /\ driver = "client"
    /\ Len(fetches) < MaxFetches
    /\ device_modules' = UpdateDeviceModules(device_modules, d, reply)
    /\ fetches' = Append(fetches, [d |-> d, reply |-> reply,
                                   raised |-> UpdateRaises(reply),
                                   error |-> UpdateError(reply)])
    /\ UNCHANGED <<driver, pc, idx, session, exitCode, apiVars, websockets,
                   ws, devices, setupFailed, cmdVars, cleanupVars, frameVars,
                   snapshot, lastCall, requests>>

InitClient == driver = "client" /\ Start

NextClient == \E d \in Devices, reply \in ClientReplies : UpdateDevice(d, reply)

SpecClient == InitClient /\ [][NextClient]_vars

\* ------------------------------------------------ the decoder at work
\* The service is running with both devices set up from the full snapshot,
\* and frames of every shape arrive.
Key(module, port, attr) == <<module, "_", port, ".", attr>>

\* A frame with one parameter.
One(key, value) == UpdateFrame(<<Param(key, value)>>)

\* Frames given to the decoder: frames that carry one attribute the decoder
\* knows, frames that carry an attribute name the capability does not have,
\* frames with another method tag or none, and frames malformed somewhere.
DecoderFrames ==
    LET KnownFrames ==
            {One(DoorKey7, c) : c \in {0, 1, 2, 3, 4, 5, 9}}
            \cup {One(LightKey7, v) : v \in {0, 1}}
            \cup {One(Key("backupCharger", "8", "chargeLevel"), v) : v \in {0, 19, 20, 85}}
            \cup {One(Key("garageDoor", "7", "motionSensor"), 1),
                  One(Key("garageDoor", "7", "vacationMode"), 1),
                  One(SensorKey7, 1),
                  One(Key("wifiModule", "5", "rssi"), 0 - 50),
                  One(Key("parkAssistLaser", "1", "moduleState"), 1),
                  One(Key("inflator", "4", "moduleState"), 1),
                  One(Key("btSpeaker", "2", "moduleState"), 1),
                  One(Key("fan", "3", "speed"), 75),
                  UpdateFrame(<<ParamOf(LightKey7, "bare", "int", 1)>>),
                  UpdateFrame(<<ParamOf(LightKey7, "dict", "digits", 0)>>),
                  UpdateFrame(<<ParamOf(Key("backupCharger", "8", "chargeLevel"),
                                        "dict", "digits", 85)>>)}
        UnknownAttrFrames ==
            {One(Key("garageDoor", "7", "doorPosition"), 40),
             One(Key("garageLight", "7", "foo"), 1),
             One(Key("backupCharger", "8", "foo"), 1),
             One(Key("wifiModule", "5", "foo"), 1),
             One(Key("parkAssistLaser", "1", "foo"), 1),
             One(Key("inflator", "4", "foo"), 1),
             One(Key("btSpeaker", "2", "micEnable"), 1),
             One(Key("fan", "3", "foo"), 1)}
        OtherMethodFrames ==
            {FrameOf("wskDeviceStateNtfy", <<Param(DoorKey7, 1)>>),
             FrameOf("wskAuthAttemptRsp", <<Param(LightKey7, 1)>>),
             [shape |-> "dict", has |-> {"params"}, method |-> "",
              params_shape |-> "dict",
              params |-> <<Param(DoorKey7, 1), Param(LightKey7, 1)>>],
             [shape |-> "dict", has |-> {"params"}, method |-> "",
              params_shape |-> "int", params |-> <<>>]}
        MalformedFrames ==
            {[shape |-> "list", has |-> {}, method |-> "", params_shape |-> "dict",
              params |-> <<>>],
             [shape |-> "none", has |-> {}, method |-> "", params_shape |-> "dict",
              params |-> <<>>],
             [shape |-> "dict", has |-> {"method"}, method |-> "wskAttributeUpdateNtfy",
              params_shape |-> "dict", params |-> <<>>],
             [shape |-> "dict", has |-> {"method", "params"},
              method |-> "wskAttributeUpdateNtfy", params_shape |-> "int",
              params |-> <<>>],
             [shape |-> "dict", has |-> {"method", "params"},
              method |-> "wskAttributeUpdateNtfy", params_shape |-> "list",
              params |-> <<Param(<<"topic">>, 0), Param(LightKey7, 1)>>],
             UpdateFrame(<<ParamOf(DoorKey7, "dict", "list", 0)>>),
             UpdateFrame(<<ParamOf(DoorKey7, "dict", "str", 0)>>),
             UpdateFrame(<<ParamOf(DoorKey7, "empty", "int", 1)>>),
             UpdateFrame(<<Param(LightKey7, 1),
                           ParamOf(Key("backupCharger", "8", "chargeLevel"),
                                   "dict", "str", 0),
                           Param(DoorKey7, 1)>>),
             UpdateFrame(<<Param(DoorKey7, 3),
                           ParamOf(Key("backupCharger", "8", "chargeLevel"),
                                   "empty", "int", 0)>>),
             UpdateFrame(<<ParamOf(Key("backupCharger", "8", "chargeLevel"),
                                   "dict", "list", 0),
                           Param(LightKey7, 1)>>)}
    IN  KnownFrames \cup UnknownAttrFrames \cup OtherMethodFrames
        \cup MalformedFrames

\* The state ServiceCoordinator reaches when both devices were set up from
\* the full snapshot and their receive loops were started.
InitDecoder ==
    /\ driver = "coordinator"
    /\ pc = "running"
    /\ idx = 3
    /\ session = "open"
    /\ exitCode = None
    /\ api_key = Some("apiKey")
    /\ all_devices = <<"d1", "d2">>
    /\ device_modules = [d \in Devices |-> IndexModules(DtmFull)]
    /\ websockets = Devices
    /\ ws = [d \in Devices |-> "listening"]
    /\ devices = [d \in Devices |->
                     ApplyCalls(NewDevice, InitialCalls(DeviceDataOf(DtmFull)))]
    /\ setupFailed = {}
    /\ h = [d \in Devices |-> Idle]
    /\ nCmds = 0
    /\ futs = <<>>
    /\ pending_futures = [d \in Devices |-> {}]
    /\ sent = [d \in Devices |-> <<>>]
    /\ errors = [d \in Devices |-> 0]
    /\ foreignWrites = [d \in Devices |-> {}]
    /\ clK = 0
    /\ clIter = NoIter
    /\ cleanupRes = [d \in Devices |-> "none"]
    /\ atStart = [d \in Devices |-> [set |-> {}, armed |-> TRUE]]
    /\ rx = [d \in Devices |-> <<>>]
    /\ nHandled = [d \in Devices |-> 0]
    /\ applied = [d \in Devices |-> <<>>]
    /\ nFrames = 0
    /\ decoded = [d \in Devices |-> None]
    /\ fetches = <<>>
    /\ snapshot = None
    /\ lastCall = None
    /\ requests = 0

NextDecoder == \E d \in Devices, fr \in DecoderFrames : HandleDeviceUpdate(d, fr)

SpecDecoder == InitDecoder /\ [][NextDecoder]_vars

\* =========================================================== properties
\* C1: when a device's cleanup() finishes, having begun with N futures in
\* _pending_futures that were each pending with the done callback attached,
\* and no command having added a future meanwhile, it has returned without
\* raising, every one of the N futures is cancelled, and _pending_futures is
\* empty.
C1_CleanupCancelsAll ==
    [][\A d \in Devices :
          (/\ cleanupRes[d] = "running"
           /\ cleanupRes'[d] # "running"
           /\ atStart[d].armed
           /\ pending_futures[d] \subseteq atStart[d].set)
          => /\ cleanupRes'[d] = "returned"
             /\ \A f \in atStart[d].set : futs'[f].state = "cancelled"
             /\ pending_futures'[d] = {}]_vars

\* C2: a command handler running on the MQTT thread never writes the device's
\* _pending_futures or an entity display value itself.
C2_NoForeignWrites == \A d \in Devices : foreignWrites[d] = {}

\* The door-state parameters of an attribute-update frame.
DoorParams(fr) ==
    IF fr.method # "wskAttributeUpdateNtfy" THEN <<>>
    ELSE SelectSeq(fr.params,
                   LAMBDA p : /\ Contains(p.key, "garageDoor")
                              /\ AttrName(p.key) = <<"doorState">>)

\* C3: when the door display holds a value a command put there (opening,
\* closing or stopped) and a frame carrying one door-state code is handled,
\* the display becomes the state of that code, whatever the code.
C3_DeltaOverridesOptimistic ==
    [][\A d \in Devices :
          (/\ nHandled'[d] = nHandled[d] + 1
           /\ d \in DOMAIN devices
           /\ "cover" \in foreignWrites[d]
           /\ devices[d].cover \in {"opening", "closing", "stopped"}
           /\ Len(DoorParams(rx'[d][nHandled'[d]])) = 1)
          => devices'[d].cover =
                 DoorStatesToString(DoorParams(rx'[d][nHandled'[d]])[1].value)]_vars

\* The command of handler d is one send_command refuses.
IsRefused(d) ==
    \/ h[d].module \notin DOMAIN MODULES
    \/ GetModule(device_modules, d, h[d].module) = None

\* C4: a send_command call for a module that is not in MODULES, or that has no
\* module-index entry for the device, creates no future, adds nothing to
\* _pending_futures, sends nothing, logs exactly one error and leaves nothing
\* behind that could send later: a future is only ever created by a call that
\* is not refused.
C4_RefusedCommandDoesNothing ==
    [][/\ \A d \in Devices :
            (h[d].pc = "send" /\ h'[d].pc # "send" /\ IsRefused(d))
            => /\ futs' = futs
               /\ pending_futures' = pending_futures
               /\ sent' = sent
               /\ errors'[d] = errors[d] + 1
               /\ h'[d] = Idle
       /\ Len(futs') > Len(futs)
            => \E d \in Devices :
                   h[d].pc = "send" /\ h'[d].pc # "send" /\ ~IsRefused(d)]_vars

\* A device without a door module refused a door OPEN command.
C4_Witness ==
    \E d \in DOMAIN devices :
        /\ d \in DOMAIN device_modules
        /\ "garageDoor" \notin DOMAIN device_modules[d]
        /\ devices[d].cover = "opening"
        /\ errors[d] = 1
        /\ h[d] = Idle
        /\ futs = <<>>

\* C5: a send_command call that is not refused creates exactly one future, for
\* send_message(port of the device's module-index entry, the module's
\* module_type, the attribute override or else the module's attribute_name,
\* value); for a door OPEN command that is (port, 5, "doorCommand", 1).
C5_AcceptedCommandSchedulesOneTuple ==
    [][\A d \in Devices :
          (h[d].pc = "send" /\ h'[d].pc # "send" /\ ~IsRefused(d))
          => LET m == h[d].module
                 port == GetModule(device_modules, d, m)[1]
                 new == futs'[Len(futs')]
             IN  /\ Len(futs') = Len(futs) + 1
                 /\ SubSeq(futs', 1, Len(futs)) = futs
                 /\ new.dev = d
                 /\ new.state = "pending"
                 /\ new.args =
                        <<port, MODULES[m].module_type,
                          IF h[d].attr # None THEN h[d].attr[1]
                          ELSE MODULES[m].attribute_name,
                          h[d].value>>
                 /\ (h[d].kind = "door" /\ h[d].payload = "OPEN")
                        => new.args = <<port, 5, "doorCommand", 1>>
                 /\ errors' = errors]_vars

\* A door OPEN for a door on port 7 and a vacation-mode ON were both scheduled.
C5_Witness ==
    /\ Len(futs) = 2
    /\ futs[1].args = <<7, 5, "doorCommand", 1>>
    /\ futs[2].args = <<7, 5, "vacationMode", 1>>

\* Handler d starts on a door command with this payload.
DoorBegins(d, payload) ==
    h[d].pc = "idle" /\ h'[d].kind = "door" /\ h'[d].payload = payload

\* C6: the door handler sets the display to "opening" on OPEN and to "closing"
\* on CLOSE before it dispatches doorCommand 1 and 0; on STOP it leaves the
\* display alone, dispatches doorCommand 2, and sets the display to "stopped"
\* only when send_command has returned; the display change is made whatever
\* state the scheduled send is in.
C6_DoorStateMachine ==
    [][\A d \in Devices :
          /\ DoorBegins(d, "OPEN")
                => /\ devices'[d].cover = "opening"
                   /\ h'[d].pc = "send" /\ h'[d].module = "garageDoor"
                   /\ h'[d].value = 1 /\ h'[d].attr = None
          /\ DoorBegins(d, "CLOSE")
                => /\ devices'[d].cover = "closing"
                   /\ h'[d].pc = "send" /\ h'[d].module = "garageDoor"
                   /\ h'[d].value = 0 /\ h'[d].attr = None
          /\ DoorBegins(d, "STOP")
                => /\ devices'[d].cover = devices[d].cover
                   /\ h'[d].pc = "send" /\ h'[d].module = "garageDoor"
                   /\ h'[d].value = 2 /\ h'[d].attr = None
          /\ (h[d].kind = "door" /\ h[d].pc = "send" /\ h'[d].pc = "add")
                => /\ futs'[h'[d].fut].args[3] = "doorCommand"
                   /\ futs'[h'[d].fut].args[4] = h[d].value
                   /\ devices' = devices
          /\ (h[d].kind = "door" /\ h[d].payload = "STOP" /\ h[d].pc # "idle")
                => /\ h'[d] = Idle => devices'[d].cover = "stopped"
                   /\ h'[d] # Idle => devices'[d].cover = devices[d].cover
          /\ (h[d].kind = "door" /\ h[d].payload = "STOP"
              /\ h[d].pc = "callback" /\ h'[d] = Idle)
                => futs[h[d].fut].args[4] = 2]_vars

\* A STOP handler has returned: the display is "stopped" while the send of
\* doorCommand 2 is still pending.
C6_Witness ==
    \E d \in DOMAIN devices :
        /\ devices[d].cover = "stopped"
        /\ h[d] = Idle
        /\ \E f \in 1..Len(futs) :
               /\ futs[f].dev = d
               /\ futs[f].args = <<7, 5, "doorCommand", 2>>
               /\ futs[f].state = "pending"

\* C7: the session is released only when every Transport constructed on it
\* has been closed and no scheduled command is still pending.
C7_ReleaseAfterClose ==
    session = "released"
        => /\ \A d \in websockets : ws[d] = "closed"
           /\ \A f \in 1..Len(futs) : futs[f].state # "pending"

\* C8: once the startup loop has ended other than by cancellation, every
\* discovered device either failed its own setup or is registered with its
\* receive loop started.
C8_SetupFailureIsolated ==
    (\/ pc \in {"running", "cleanup", "closing", "cleanup_failed"}
     \/ (pc = "exited" /\ exitCode = Some(1)))
        => \A i \in 1..Len(all_devices) :
               \/ all_devices[i] \in setupFailed
               \/ /\ all_devices[i] \in DOMAIN devices
                  /\ ws[all_devices[i]] \notin {"none", "created"}

\* The parameters of a frame that decode to a field, in frame order.
DecodedParams(fr) ==
    IF fr.method # "wskAttributeUpdateNtfy" THEN <<>>
    ELSE SelectSeq(fr.params,
                   LAMBDA p : p.key \notin ReservedKeys /\ ParamUpdate(p) # None)

\* One application per decoded parameter of frame n, in frame order.
PerParamCalls(fr, n) ==
    [i \in 1..Len(DecodedParams(fr)) |->
        <<n, ParamUpdate(DecodedParams(fr)[i])[1][1],
             ParamUpdate(DecodedParams(fr)[i])[1][2]>>]

RECURSIVE PerParamLog(_, _)
PerParamLog(frames, n) ==
    IF n = 0 THEN <<>>
    ELSE PerParamLog(frames, n - 1) \o PerParamCalls(frames[n], n)

\* C10 as stated: the applications made for a device are, frame by frame in
\* delivery order, one per decoded parameter in the order the parameters
\* appear in the frame.
C10_FrameOrderNoMerge ==
    \A d \in Devices : applied[d] = PerParamLog(rx[d], nHandled[d])

\* The fields the bridge has an update operation for, in the order the
\* handler tests them.
AppliedFields ==
    <<"door_state", "light_state", "battery_level", "motion", "wifi_rssi",
      "vacation_mode", "park_assist", "inflator", "bt_speaker", "fan">>

\* At most one application per field of frame n, in the order of
\* AppliedFields, with the value of the last parameter that decodes to it.
RECURSIVE PerFieldCalls(_, _, _)
PerFieldCalls(fr, n, k) ==
    IF k > Len(AppliedFields) THEN <<>>
    ELSE LET ps == DecodedParams(fr)
             hits == {i \in 1..Len(ps) : ParamUpdate(ps[i])[1][1] = AppliedFields[k]}
             last == CHOOSE i \in hits : \A j \in hits : j <= i
         IN  (IF hits = {} THEN <<>>
              ELSE <<(<<n, AppliedFields[k], ParamUpdate(ps[last])[1][2]>>)>>)
             \o PerFieldCalls(fr, n, k + 1)

\* C10 amended: the frames of a device are handled one at a time in delivery
\* order, and handling frame n applies each field at most once, door, light,
\* battery, motion, wifi, vacation, park-assist, inflator, speaker, fan in
\* that order, with the last value the frame carries for the field; a decoded
\* field without an update operation (safety) is not applied; nothing else
\* is applied.
C10_FrameOrderFieldOrder ==
    [][\A d \in Devices :
          /\ nHandled'[d] \in {nHandled[d], nHandled[d] + 1}
          /\ nHandled'[d] = nHandled[d] => applied'[d] = applied[d]
          /\ nHandled'[d] = nHandled[d] + 1
                => applied'[d] =
                       applied[d] \o PerFieldCalls(rx'[d][nHandled'[d]],
                                                   nHandled'[d], 1)]_vars

\* Two frames were handled for a device: one with two door states, then one
\* with the light before the door.
C10_Witness ==
    \E d \in Devices :
        /\ nHandled[d] = 2
        /\ rx[d][1] = UpdateFrame(<<Param(DoorKey7, 1), Param(DoorKey9, 2)>>)
        /\ rx[d][2] = UpdateFrame(<<Param(LightKey7, 1), Param(DoorKey7, 1)>>)
        /\ Len(applied[d]) = 3
        /\ applied[d][1] = <<1, "door_state", "closing">>
        /\ applied[d][2] = <<2, "door_state", "open">>
        /\ applied[d][3] = <<2, "light_state", TRUE>>

\* ------------------------------------------------------- module index
\* The last update_device call made on the client itself.
LastFetch == fetches[Len(fetches)]

\* The places of the type map whose key contains the capability's name.
Matches(dtm, m) == {i \in 1..Len(dtm) : Contains(dtm[i].key, m)}

\* The capabilities some key of the type map matches.
Matched(dtm) == {m \in ModuleList : Matches(dtm, m) # {}}

\* The first key of the type map, in scan order, that matches the capability.
FirstMatch(dtm, m) ==
    dtm[CHOOSE i \in Matches(dtm, m) : \A j \in Matches(dtm, m) : i <= j].key

\* C11: after a fetch whose type map holds several keys matching one
\* capability, the index maps the capability to the first of them in scan
\* order.
C11_FirstMatchWins ==
    (fetches # <<>> /\ LastFetch.reply.kind = "ok")
    => \A m \in Matched(LastFetch.reply.dtm) :
          device_modules[LastFetch.d][m] = FirstMatch(LastFetch.reply.dtm, m)

\* A key that is text, one underscore, and then digits only.
WellFormedKey(key) ==
    /\ Cardinality({i \in 1..Len(key) : key[i] = "_"}) = 1
    /\ key[Len(key)] # "_"
    /\ \A i \in 1..Len(key) :
          (\E j \in 1..(i - 1) : key[j] = "_") => key[i] \in DigitTokens

\* The digits that follow the key's underscore.
DigitsAfterUnderscore(key) ==
    LET u == CHOOSE i \in 1..Len(key) : key[i] = "_"
    IN  SubSeq(key, u + 1, Len(key))

\* get_module answers with the port written in one of the keys of the type
\* map that match the capability.
PortOfAMatch(dtm, d, m) ==
    /\ ~GetModuleRaises(device_modules, d, m)
    /\ \E i \in Matches(dtm, m) :
          GetModule(device_modules, d, m)
              = Some(ToInt(DigitsAfterUnderscore(dtm[i].key)))

\* get_module answers None, without raising, for a device that was never
\* fetched and for a capability the index of the device does not hold.
NoneWhenNotIndexed ==
    \A d \in Devices \cup {"d3"}, m \in ModuleList \cup {"sprinkler"} :
        (d \notin DOMAIN device_modules \/ m \notin DOMAIN device_modules[d])
        => /\ ~GetModuleRaises(device_modules, d, m)
           /\ GetModule(device_modules, d, m) = None

C13_IndexRebuiltInFull ==
    (fetches # <<>> /\ ~LastFetch.raised)
    => /\ DOMAIN device_modules[LastFetch.d] = Matched(LastFetch.reply.dtm)
       /\ \A m \in Matched(LastFetch.reply.dtm) :
             \E i \in Matches(LastFetch.reply.dtm, m) :
                 device_modules[LastFetch.d][m] = LastFetch.reply.dtm[i].key

\* The device was fetched before with a type map that matched a capability
\* the type map of its last, successful fetch does not match.
C13_Witness ==
    /\ Len(fetches) >= 2
    /\ ~LastFetch.raised
    /\ \E k \in 1..(Len(fetches) - 1) :
          /\ fetches[k].d = LastFetch.d
          /\ ~fetches[k].raised
          /\ Matched(fetches[k].reply.dtm) \ Matched(LastFetch.reply.dtm) # {}
          /\ Matched(LastFetch.reply.dtm) # {}

\* -------------------------------------------------------------- decoder
\* The callback of device d has decoded a frame.
HasDecoded(d) == decoded[d] # None

\* The frame it decoded last, and the fields it got from it.
LastFrame(d) == rx[d][nHandled[d]]
LastUpdates(d) == decoded[d][1].updates

\* The last frame of d is an attribute update that was decoded without an
\* error and carries exactly one parameter, which is not a reserved key.
OneParamDecoded(d) ==
    /\ HasDecoded(d)
    /\ decoded[d][1].logged = 0
    /\ LastFrame(d).shape = "dict"
    /\ LastFrame(d).has = {"method", "params"}
    /\ LastFrame(d).method = "wskAttributeUpdateNtfy"
    /\ Len(LastFrame(d).params) = 1
    /\ LastFrame(d).params[1].key \notin ReservedKeys

\* The parameter, its capability and its attribute name.
TheParam(d) == LastFrame(d).params[1]
TheModule(d) == TheParam(d).key[1]
TheAttr(d) == AttrName(TheParam(d).key)

\* The frame carries one garageDoor doorState whose value is an integer.
DoorCodeDecoded(d) ==
    /\ OneParamDecoded(d)
    /\ TheModule(d) = "garageDoor"
    /\ TheAttr(d) = <<"doorState">>
    /\ TheParam(d).box # "empty"
    /\ TheParam(d).kind = "int"

\* The names of the door codes.
DoorName(c) ==
    CASE c = 0 -> "closed" [] c = 1 -> "open" [] c = 2 -> "closing"
      [] c = 3 -> "opening" [] c = 4 -> "fault" [] OTHER -> "unknown"

KnownAttrs(module) ==
    IF module = "garageDoor"
    THEN {"doorState", "motionSensor", "vacationMode", "sensorFlag"}
    ELSE {MODULES[module].attribute_name}

\* C15: a frame key that names a capability of the fixed set with an
\* attribute name that is not one of that capability's produces no output
\* field.
C15_UnknownAttributeIgnored ==
    \A d \in Devices :
        (/\ OneParamDecoded(d)
         /\ TheModule(d) \in DOMAIN MODULES
         /\ \A a \in KnownAttrs(TheModule(d)) : TheAttr(d) # <<a>>)
        => LastUpdates(d) = <<>>

\* A parameter whose value cannot be used: an unhashable door code, or a
\* charge level that is text but no number, a list, or missing.
BadParam(p) ==
    \/ /\ p.key[1] = "garageDoor" /\ AttrName(p.key) = <<"doorState">>
       /\ p.box # "empty" /\ p.kind = "list"
    \/ /\ p.key[1] = "backupCharger" /\ AttrName(p.key) = <<"chargeLevel">>
       /\ (p.box = "empty" \/ p.kind \in {"str", "list", "none"})

\* The places of an attribute update's params where decoding cannot go on.
BadPlaces(fr) ==
    {i \in 1..Len(fr.params) :
        /\ fr.params[i].key \notin ReservedKeys
        /\ (fr.params_shape = "list" \/ BadParam(fr.params[i]))}

\* The frame has a malformed part the decoder comes across.
Malformed(fr) ==
    \/ fr.shape # "dict"
    \/ /\ "method" \in fr.has /\ fr.method = "wskAttributeUpdateNtfy"
       /\ "params" \in fr.has
       /\ (fr.params_shape = "int" \/ BadPlaces(fr) # {})

\* The params that come before the malformed part.
BeforeBad(fr) ==
    IF fr.shape # "dict" \/ fr.params_shape = "int" THEN {}
    ELSE {i \in 1..Len(fr.params) : \A b \in BadPlaces(fr) : i < b}

\* The field a door, light or charger parameter is decoded to ("" if none).
FieldOf(p) ==
    LET m == p.key[1]
        a == AttrName(p.key)
    IN  CASE m = "garageDoor" /\ a = <<"doorState">>
                /\ p.kind = "int" /\ p.box # "empty" /\ p.value \in 0..4
                -> "door_state"
          [] m = "garageLight" /\ a = <<"lightState">> -> "light_state"
          [] m = "backupCharger" /\ a = <<"chargeLevel">> -> "battery_level"
          [] OTHER -> ""

\* C16: parse_attribute_update never raises, whatever the frame: no exception
\* leaves it; when the frame has a malformed part (a frame that is not a
\* dict, params that is not a mapping, a value that cannot be converted, an
\* unhashable door code) one error is logged and the result holds the fields
\* of the parameters that come before that part, and only those.
C16_DecoderNeverRaises ==
    \A d \in Devices :
        HasDecoded(d)
        => /\ decoded[d][1].escaped = ""
           /\ (decoded[d][1].logged = 1) = Malformed(LastFrame(d))
           /\ Malformed(LastFrame(d))
              => DOMAIN LastUpdates(d) =
                     {FieldOf(LastFrame(d).params[i]) :
                          i \in BeforeBad(LastFrame(d))} \ {""}

\* A frame whose second parameter cannot be converted was decoded to the
\* field of its first parameter, and a frame that is not a dict to nothing.
C16_Witness ==
    /\ HasDecoded("d1") /\ HasDecoded("d2")
    /\ LastFrame("d1").shape = "dict"
    /\ BadPlaces(LastFrame("d1")) = {2}
    /\ Len(LastFrame("d1").params) = 3
    /\ DOMAIN LastUpdates("d1") = {"light_state"}
    /\ decoded["d1"][1].logged = 1
    /\ LastFrame("d2").shape = "list"
    /\ LastUpdates("d2") = <<>>
    /\ decoded["d2"][1].logged = 1

\* The frame is a dict whose method tag is not "wskAttributeUpdateNtfy", or
\* that has no method at all.
OtherMethod(fr) ==
    /\ fr.shape = "dict"
    /\ ("method" \notin fr.has \/ fr.method # "wskAttributeUpdateNtfy")

\* C17: when the callback of a device handles a frame whose method tag is not
\* "wskAttributeUpdateNtfy", or that has no method, the decoder returns an
\* empty field set without logging an error, whatever the params are, and no
\* display value of any device changes and no update_* call is made.
C17_OtherMethodNoFields ==
    [][\A d \in Devices :
          (/\ nHandled'[d] = nHandled[d] + 1
           /\ OtherMethod(rx'[d][nHandled'[d]]))
          => /\ decoded'[d] = Some([updates |-> <<>>, logged |-> 0,
                                    escaped |-> ""])
             /\ devices' = devices
             /\ applied' = applied]_vars

\* After a frame that turned the light of the device on, a frame without a
\* method whose params name the door and the light has been handled.
C17_Witness ==
    /\ nHandled["d1"] = 2
    /\ OtherMethod(LastFrame("d1"))
    /\ "method" \notin LastFrame("d1").has
    /\ Len(LastFrame("d1").params) = 2
    /\ devices["d1"].light = "on"
    /\ devices["d1"].cover = "closed"

\* The attribute of each capability that carries its state, and the output
\* field it is decoded to.
StateAttr(module) ==
    CASE module = "garageDoor" -> "doorState"
      [] module = "garageLight" -> "lightState"
      [] OTHER -> MODULES[module].attribute_name

OutputField(module) ==
    CASE module = "garageDoor" -> "door_state"
      [] module = "garageLight" -> "light_state"
      [] module = "backupCharger" -> "battery_level"
      [] module = "wifiModule" -> "wifi_rssi"
      [] module = "parkAssistLaser" -> "park_assist"
      [] module = "inflator" -> "inflator"
      [] module = "btSpeaker" -> "bt_speaker"
      [] module = "fan" -> "fan"

\* C18: for every capability of the fixed set, an attribute-update frame
\* carrying the capability's state attribute with a number (for the door, one
\* of the codes 0..4) yields the capability's output field, typed: one of the
\* door state names for the door, a boolean for the light, and the integer
\* carried for battery, fan, wifi, park-assist, inflator and speaker.
C18_TypedFieldPerCapability ==
    \A d \in Devices :
        (/\ OneParamDecoded(d)
         /\ TheModule(d) \in DOMAIN MODULES
         /\ TheAttr(d) = <<StateAttr(TheModule(d))>>
         /\ TheParam(d).box # "empty"
         /\ TheParam(d).kind = "int"
         /\ TheModule(d) = "garageDoor" => TheParam(d).value \in 0..4)
        => /\ DOMAIN LastUpdates(d) = {OutputField(TheModule(d))}
           /\ LET v == LastUpdates(d)[OutputField(TheModule(d))]
              IN  CASE TheModule(d) = "garageDoor" ->
                         v \in {"closed", "open", "closing", "opening", "fault"}
                    [] TheModule(d) = "garageLight" ->
                         v \in BOOLEAN /\ v = (TheParam(d).value # 0)
                    [] OTHER -> v \in Int /\ v = TheParam(d).value

\* ------------------------------------------------------ applying deltas
\* The entity notifications made for field f of the n-th frame of device d.
NotifiedFor(log, n, f) ==
    {i \in 1..Len(log) :
        log[i][1] = n /\ log[i][2] = f /\ Notified(f, log[i][3]) = 1}

\* C19: handling the same frame twice leaves the display of the device as
\* handling it once does, and every handling of a frame makes exactly one
\* entity notification for each field of the frame's delta.
C19_IdempotentOneNotification ==
    [][\A d \in Devices :
          (nHandled'[d] = nHandled[d] + 1 /\ decoded'[d] # None)
          => /\ \A f \in DOMAIN decoded'[d][1].updates :
                   Cardinality(NotifiedFor(applied'[d], nHandled'[d], f)) = 1
             /\ (/\ nHandled[d] >= 1
                 /\ rx'[d][nHandled'[d]] = rx[d][nHandled[d]])
                => devices'[d] = devices[d]]_vars

\* ---------------------------------------------------------------- setup
\* DeviceManager.setup_device has just registered device d from the snapshot
\* that has a door, a light and a charger: door closed (code 0), light off,
\* battery level 0.
SetUpFromFullSnapshot(d) ==
    /\ pc = "fetch"
    /\ all_devices[idx] = d
    /\ d \notin DOMAIN devices
    /\ d \in DOMAIN devices'
    /\ DOMAIN device_modules'[d] = {"garageDoor", "garageLight", "backupCharger"}

\* C20 as stated: after setup_device for a device whose snapshot shows door
\* closed, light off and battery level 0, the display is door closed, light
\* off and battery low-alert off.
C20_SetupAlertOff ==
    [][\A d \in Devices :
          SetUpFromFullSnapshot(d)
          => /\ devices'[d].cover = "closed"
             /\ devices'[d].light = "off"
             /\ devices'[d].battery = "off"]_vars

\* C20: after setup_device for a device whose snapshot shows door closed,
\* light off and battery level 0, the display is door closed, light off and
\* battery low-alert on.
C20_SetupAlertOn ==
    [][\A d \in Devices :
          SetUpFromFullSnapshot(d)
          => /\ devices'[d].cover = "closed"
             /\ devices'[d].light = "off"
             /\ devices'[d].battery = "on"]_vars

\* The second device has just been set up from that snapshot.
C20_Witness ==
    /\ driver = "coordinator"
    /\ pc = "listen"
    /\ all_devices[idx] = "d2"
    /\ "d2" \in DOMAIN devices
    /\ DOMAIN device_modules["d2"] = {"garageDoor", "garageLight", "backupCharger"}
    /\ DtmFull[3].at.chargeLevel = 0

\* ------------------------------------------ setup_device, step by step
\* DeviceManager.setup_device as the MQTT broker sees it: the constructor
\* publishes its initial states, then the snapshot values are published.
\* update_device returns (line 580) or raises; the DeviceData it returns is
\* an object, so the test of line 581 never fires.
SetupDeviceFetch(reply) ==
    /\ driver = "coordinator" /\ pc = "fetch"
    /\ LET d == all_devices[idx]
       IN  /\ device_modules' = UpdateDeviceModules(device_modules, d, reply)
           /\ IF UpdateRaises(reply)
              THEN /\ setupFailed' = setupFailed \cup {d}
                   /\ idx' = idx + 1
                   /\ pc' = "setup"
                   /\ UNCHANGED snapshot
              ELSE /\ snapshot' = Some(DeviceDataOf(reply.dtm))
                   /\ pc' = "construct"
                   /\ UNCHANGED <<setupFailed, idx>>
    /\ UNCHANGED <<driver, fetches, lastCall, requests, session, exitCode,
                   apiVars, websockets, ws, devices, cmdVars, cleanupVars,
                   frameVars>>

\* Lines 588-596: RyobiDevice(...) runs its constructor, which ends with
\* the initial states of lines 312-315, and the bridge is registered.
SetupDeviceConstruct ==
    /\ driver = "coordinator" /\ pc = "construct"
    /\ devices' = [x \in (DOMAIN devices) \cup {all_devices[idx]} |->
                      IF x = all_devices[idx] THEN NewDevice ELSE devices[x]]
    /\ pc' = "seed"
    /\ UNCHANGED <<driver, clientVars, idx, session, exitCode, apiVars,
                   device_modules, websockets, ws, setupFailed, cmdVars,
                   cleanupVars, frameVars>>

\* Lines 598-618: the update_* calls for the fields of the snapshot.
SetupDeviceSeed ==
    /\ driver = "coordinator" /\ pc = "seed"
    /\ devices' = [devices EXCEPT ![all_devices[idx]] =
                      ApplyCalls(@, InitialCalls(snapshot[1]))]
    /\ snapshot' = None
    /\ pc' = "listen"
    /\ UNCHANGED <<driver, fetches, lastCall, requests, idx, session,
                   exitCode, apiVars, device_modules, websockets, ws,
                   setupFailed, cmdVars, cleanupVars, frameVars>>

NextBridge ==
    \/ \E ok \in BOOLEAN : Bootstrap(ok)
    \/ CoordSetupBegin
    \/ \E reply \in SetupReplies : SetupDeviceFetch(reply)
    \/ SetupDeviceConstruct
    \/ SetupDeviceSeed
    \/ StartListen
    \/ SetupDone
    \/ \E d \in Devices, fr \in Frames : HandleDeviceUpdate(d, fr)

SpecBridge == InitStream /\ [][NextBridge]_vars

\* The bridge under construction: built, its snapshot not yet applied.
JustConstructed == pc = "seed"
TheBridge == devices[all_devices[idx]]

\* C21 as stated: when a device bridge is constructed, before any
\* snapshot-derived update is applied, every field it surfaces is a "not yet
\* known" default: none of door, light and vacation mode has a concrete value
\* such as closed or off.
C21_NothingConcreteBeforeSnapshot ==
    JustConstructed =>
        /\ TheBridge.cover = Unset
        /\ TheBridge.light = Unset
        /\ TheBridge.vacation = Unset

\* C21 amended: when a device bridge is constructed, before any
\* snapshot-derived update is applied, the door is surfaced as closed and the
\* light and the vacation mode as off; every other field (battery, motion,
\* wifi, park assist, inflator, speaker, fan) has no value yet.
C21_ConstructorDefaults ==
    JustConstructed =>
        /\ TheBridge.cover = "closed"
        /\ TheBridge.light = "off"
        /\ TheBridge.vacation = "off"
        /\ \A f \in {"battery", "motion", "park_assist", "inflator",
                     "bt_speaker"} : TheBridge[f] = Unset
        /\ TheBridge.wifi = None
        /\ TheBridge.fan = None

\* The second device is constructed, its snapshot (light on, no door) not
\* yet applied, while the first device already shows its snapshot.
C21_Witness ==
    /\ JustConstructed
    /\ idx = 2
    /\ "d1" \in DOMAIN devices
    /\ devices["d1"].battery = "on"
    /\ snapshot # None
    /\ "light_state" \in DOMAIN snapshot[1]
    /\ snapshot[1].light_state = 1
    /\ "door_state" \notin DOMAIN snapshot[1]

\* --------------------------------------------- the account endpoints
\* RyobiApiClient.get_api_key, get_devices and the request primitive they
\* share, called directly with every kind of reply.
MaxRequests == 3

\* What the session's request came to: the exception classes the primitive
\* names in its except clauses (lines 132-137), or a response.
NetOutcomes ==
    {"response", "TimeoutError", "ServerTimeoutError", "ServerConnectionError"}

Statuses == {200, 201, 401, 403, 404, 405, 500, 502}

\* The body json.loads is given: not JSON at all, JSON that is not an
\* object (an array, a number), or a JSON object.
BodyKinds == {"not_json", "array", "number", "object"}

Http(net, status, body, payload) ==
    [net |-> net, status |-> status, body |-> body, payload |-> payload]

\* A primitive that issues the request again after a failed attempt.
process_request_retrying(http) ==
    LET raise(err, n) == [raised |-> err, value |-> None, attempts |-> n]
    IN  IF http.net # "response"
        THEN raise("RyobiConnectionError", 2)
        ELSE IF http.body # "object" \/ http.status \in {404, 405, 500}
        THEN raise("RyobiInvalidResponseError", 1)
        ELSE [raised |-> "", value |-> Some(http.payload), attempts |-> 1]

\* A primitive that refuses every status outside 200..299.
process_request_2xx_only(http) ==
    LET raise(err) == [raised |-> err, value |-> None, attempts |-> 1]
    IN  IF http.net # "response"
        THEN raise("RyobiConnectionError")
        ELSE IF http.body # "object" \/ http.status < 200 \/ http.status > 299
        THEN raise("RyobiInvalidResponseError")
        ELSE [raised |-> "", value |-> Some(http.payload), attempts |-> 1]

\* _process_request: what it raises ("" when it returns), what it returns,
\* and how many times it called the session (line 117: once, outside any
\* loop).  The body is parsed before the status is looked at.
process_request(http) ==
    LET raise(err) == [raised |-> err, value |-> None, attempts |-> 1]
    IN  IF http.net \in {"TimeoutError", "ServerTimeoutError"}
        THEN raise("RyobiConnectionError")
        ELSE IF http.net = "ServerConnectionError"
        THEN raise("RyobiConnectionError")
        ELSE IF http.body = "not_json"
        THEN raise("RyobiInvalidResponseError")
        ELSE IF http.body # "object"
        THEN raise("RyobiInvalidResponseError")
        ELSE IF http.status \in {404, 405, 500}
        THEN raise("RyobiInvalidResponseError")
        ELSE [raised |-> "", value |-> Some(http.payload), attempts |-> 1]

\* ---- the login payload
\* A login payload is described by the kind of value found at each place:
\* "absent" (no such key), "null", or the JSON type of the value.  A "str",
\* "list" or "dict" value is non-empty unless said otherwise.
\* The optional fields the models declare, with the type each one accepts
\* (models.py): values of another type are drawn from the types no pydantic
\* release converts.
FieldType ==
    [userName |-> "str", authCount |-> "int", regPin |-> "str",
     clientUserName |-> "str", authCreatedDate |-> "str",
     childSelectors |-> "list", varName |-> "str", enabled |-> "bool",
     deleted |-> "bool", createdDate |-> "str", activated |-> "bool"]

LoginPayload(result, auth, meta, apiKey, wsk, f) ==
    [result |-> result, auth |-> auth, meta |-> meta, apiKey |-> apiKey,
     wskAuthAttempts |-> wsk, f |-> f]

\* A JSON value: its kind and, for a string, the string.
Value(kind, v) == [kind |-> kind, v |-> v]

\* The value .get(f) gives for an optional field: the holder's "or {}"
\* makes every field of a missing holder absent.
FieldKind(p, f) ==
    IF f \in {"userName", "authCount"} /\ p.meta # "dict" THEN "absent"
    ELSE IF /\ f \in {"regPin", "clientUserName", "authCreatedDate",
                      "childSelectors"}
            /\ p.auth # "dict"
    THEN "absent"
    ELSE p.f[f]

ApiKeyOf(p) == IF p.auth = "dict" THEN p.apiKey ELSE Value("absent", "")

WskKind(p) == IF p.meta = "dict" THEN p.wskAuthAttempts ELSE "absent"

\* bool(value) of a JSON value.
Falsy(val) ==
    \/ val.kind \in {"absent", "null"}
    \/ val.kind = "str" /\ val.v = ""

\* A model field declared "T | None = None" validates the value it is given.
FieldValid(f, kind) == kind \in {"absent", "null", FieldType[f]}

\* Auth.apiKey: str (models.py line 33); the validated value is the value.
AuthApiKeyDefault(val) == [ok |-> TRUE, v |-> "apiKey"]

AuthApiKey(val) == [ok |-> val.kind = "str", v |-> val.v]

\* get_api_key lines 49-100: the exception its try block ends with, "" when
\* it reaches line 99.
LoginException(p) ==
    IF p.result # "dict" THEN "RyobiInvalidResponseError"
    ELSE IF p.auth \in {"str", "list"} THEN "AttributeError"
    ELSE IF Falsy(ApiKeyOf(p)) THEN "RyobiInvalidResponseError"
    ELSE IF p.meta \in {"str", "list"} THEN "AttributeError"
    ELSE IF WskKind(p) = "int" THEN "TypeError"
    ELSE IF \E f \in DOMAIN FieldType : ~FieldValid(f, FieldKind(p, f))
    THEN "ValidationError"
    ELSE IF ~AuthApiKey(ApiKeyOf(p)).ok THEN "ValidationError"
    ELSE ""

\* Lines 101-105: RyobiInvalidResponseError is re-raised, every other
\* exception is wrapped in one.
LoginRaisedUnwrapped(exc) == exc

LoginRaised(exc) == IF exc = "" THEN "" ELSE "RyobiInvalidResponseError"

\* get_api_key after the request primitive returned or raised: what it
\* raises, what it returns, and api_key afterwards.
get_api_key(before, r) ==
    IF r.raised # ""
    THEN [raised |-> r.raised, returned |-> FALSE, api_key |-> before]
    ELSE IF r.value = None
    THEN [raised |-> "RyobiAuthenticationError", returned |-> FALSE,
          api_key |-> before]
    ELSE LET p == r.value[1]
             exc == LoginException(p)
         IN  IF exc # ""
             THEN [raised |-> LoginRaised(exc), returned |-> FALSE,
                   api_key |-> before]
             ELSE [raised |-> "", returned |-> TRUE,
                   api_key |-> Some(AuthApiKey(ApiKeyOf(p)).v)]

\* ---- login payloads drawn
\* Payloads that carry a token, their optional places present, missing or
\* null (ok); payloads that carry a token and one optional place of a type
\* its field does not accept (bad); payloads without a usable token (none).
LoginPayloads ==
    LET fields == DOMAIN FieldType
        tokens == {"1234567890", "tokenB"}
        allAbsent == [f \in fields |-> "absent"]
        allNull == [f \in fields |-> "null"]
        wrong(f) == IF FieldType[f] = "list" THEN "int" ELSE "list"
        token == Value("str", "tokenB")
        ok == {LoginPayload("dict", "dict", mw[1], Value("str", t), mw[2], f) :
                 t \in tokens,
                 f \in {FieldType, allAbsent, allNull}
                       \cup {[FieldType EXCEPT ![x] = k] :
                                x \in fields, k \in {"absent", "null"}},
                 mw \in {<<"dict", "list">>, <<"absent", "list">>,
                         <<"null", "list">>, <<"dict", "absent">>,
                         <<"dict", "null">>}}
        bad == {LoginPayload("dict", "dict", "dict", Value("str", t), "list",
                             [FieldType EXCEPT ![x] = wrong(x)]) :
                  t \in tokens, x \in fields}
               \cup {LoginPayload("dict", "dict", meta, token, "list",
                                  FieldType) : meta \in {"str", "list"}}
               \cup {LoginPayload("dict", "dict", "dict", token, wsk,
                                  FieldType) :
                       wsk \in {"int", "str", "bad_entries"}}
        none == {LoginPayload(result, "dict", "dict", token, "list",
                              FieldType) :
                   result \in {"absent", "null", "str", "list"}}
                \cup {LoginPayload("dict", auth, "dict", token, "list",
                                   FieldType) :
                        auth \in {"absent", "null", "str", "list"}}
                \cup {LoginPayload("dict", "dict", "dict", val, "list", fs) :
                        val \in {Value("absent", ""), Value("null", ""),
                                 Value("str", ""), Value("list", "")},
                        fs \in {FieldType, allAbsent}}
    IN  ok \cup bad \cup none

\* The payload of a successful login: a token and every field present.
FullLogin ==
    LoginPayload("dict", "dict", "dict", Value("str", "tokenB"), "list",
                 FieldType)

\* Replies to POST login.
LoginReplies ==
    {Http("response", 200, "object", p) : p \in LoginPayloads}
    \cup {Http(net, 200, "object", FullLogin) :
            net \in NetOutcomes \ {"response"}}
    \cup {Http("response", st, body, p) :
            st \in Statuses, body \in BodyKinds,
            p \in {FullLogin, [FullLogin EXCEPT !.apiKey = Value("absent", "")]}}

\* One get_api_key() call on the client.
GetApiKey(http) ==
    /\ driver = "account"
    /\ requests < MaxRequests
    /\ LET r == process_request(http)
           out == get_api_key(api_key, r)
       IN  /\ requests' = requests + r.attempts
           /\ api_key' = out.api_key
           /\ lastCall' = Some([op |-> "get_api_key", http |-> http,
                                requestsBefore |-> requests,
                                before |-> api_key, raised |-> out.raised,
                                returned |-> out.returned])
    /\ UNCHANGED <<driver, pc, idx, session, exitCode, all_devices,
                   device_modules, websockets, ws, devices, setupFailed,
                   cmdVars, cleanupVars, frameVars, fetches, snapshot>>

\* ---- the device list
\* An entry of the result list: the keys it has, its varName and its
\* metaData.name.
Entry(has, varName, name) == [has |-> has, varName |-> varName, name |-> name]

FullEntry == {"varName", "metaData", "name"}

\* The payload of GET devices: the kind of value at "result" and, when it is
\* a list, its entries.
DevicesPayload(result, entries) == [result |-> result, entries |-> entries]

\* Replies to GET devices: complete entries (one device twice), entries
\* lacking a key, an empty list, and a result that is no list.
DevicesReplies ==
    LET Acura == Entry(FullEntry, "d1", "Acura")
        Genesis == Entry(FullEntry, "d2", "Genesis")
        AcuraAgain == Entry(FullEntry, "d1", "Acura 2")
        NoVarName == Entry({"metaData", "name"}, "", "Acura")
        NoMetaData == Entry({"varName"}, "d1", "")
        NoName == Entry({"varName", "metaData"}, "d2", "")
        lists == {<<>>, <<Acura>>, <<Acura, Genesis>>, <<Genesis, Acura>>,
                  <<Acura, Genesis, AcuraAgain>>, <<NoVarName>>,
                  <<Acura, NoMetaData>>, <<Acura, NoName>>,
                  <<NoName, NoVarName>>}
    IN  {Http("response", 200, "object", DevicesPayload("list", es)) :
            es \in lists}
        \cup {Http("response", 200, "object", DevicesPayload(k, <<>>)) :
                k \in {"absent", "null", "int", "str"}}
        \cup {Http(net, 200, "object", DevicesPayload("list", <<Acura>>)) :
                net \in NetOutcomes \ {"response"}}
        \cup {Http("response", st, body,
                   DevicesPayload("list", <<Acura, Genesis>>)) :
                st \in Statuses, body \in BodyKinds}

\* devices[varName] = name on an insertion-ordered dict held as a sequence
\* of <<id, name>>.
DictSet(dict, key, value) ==
    IF \E i \in 1..Len(dict) : dict[i][1] = key
    THEN [i \in 1..Len(dict) |->
             IF dict[i][1] = key THEN <<key, value>> ELSE dict[i]]
    ELSE Append(dict, <<key, value>>)

\* get_devices lines 181-184: the loop over the entries, up to the first
\* entry that lacks a key.
RECURSIVE DevicesFold(_, _, _)
DevicesFold(entries, i, dict) ==
    IF i > Len(entries) THEN [raised |-> "", devices |-> dict]
    ELSE IF ~(FullEntry \subseteq entries[i].has)
    THEN [raised |-> "KeyError", devices |-> <<>>]
    ELSE DevicesFold(entries, i + 1,
                     DictSet(dict, entries[i].varName, entries[i].name))

\* get_devices after the request primitive returned or raised.
get_devices(r) ==
    IF r.raised # "" THEN [raised |-> r.raised, devices |-> <<>>]
    ELSE LET p == r.value[1]
         IN  IF p.result = "absent"
             THEN [raised |-> "RyobiInvalidResponseError", devices |-> <<>>]
             ELSE IF p.result \in {"null", "int"}
             THEN [raised |-> "TypeError", devices |-> <<>>]
             ELSE IF p.result = "str"
             THEN [raised |-> "TypeError", devices |-> <<>>]
             ELSE IF Len(p.entries) = 0
             THEN [raised |-> "RyobiDeviceNotFoundError", devices |-> <<>>]
             ELSE DevicesFold(p.entries, 1, <<>>)

\* One get_devices() call on the client.
GetDevices(http) ==
    /\ driver = "account"
    /\ requests < MaxRequests
    /\ LET r == process_request(http)
           out == get_devices(r)
       IN  /\ requests' = requests + r.attempts
           /\ lastCall' = Some([op |-> "get_devices", http |-> http,
                                requestsBefore |-> requests,
                                raised |-> out.raised,
                                returned |-> out.devices])
    /\ UNCHANGED <<driver, pc, idx, session, exitCode, apiVars,
                   device_modules, websockets, ws, devices, setupFailed,
                   cmdVars, cleanupVars, frameVars, fetches, snapshot>>

\* Replies to a request made through the primitive itself.
AnyReplies ==
    {Http(net, st, body, FullLogin) :
        net \in NetOutcomes, st \in Statuses, body \in BodyKinds}

\* One _process_request(url, method, data) call on the client.
ProcessRequest(http) ==
    /\ driver = "account"
    /\ requests < MaxRequests
    /\ LET r == process_request(http)
       IN  /\ requests' = requests + r.attempts
           /\ lastCall' = Some([op |-> "process_request", http |-> http,
                                requestsBefore |-> requests,
                                raised |-> r.raised, returned |-> r.value])
    /\ UNCHANGED <<driver, pc, idx, session, exitCode, apiVars,
                   device_modules, websockets, ws, devices, setupFailed,
                   cmdVars, cleanupVars, frameVars, fetches, snapshot>>

InitAccount == driver = "account" /\ Start

NextAccount ==
    \/ \E http \in LoginReplies : GetApiKey(http)
    \/ \E http \in DevicesReplies : GetDevices(http)
    \/ \E http \in AnyReplies : ProcessRequest(http)

SpecAccount == InitAccount /\ [][NextAccount]_vars

\* The last call was get_api_key() and the request primitive handed it a
\* payload.
LoginCalled ==
    /\ lastCall # None
    /\ lastCall[1].op = "get_api_key"
    /\ process_request(lastCall[1].http).raised = ""

LoginPayloadSeen == lastCall[1].http.payload

\* A well-formed login payload with a token: result and auth are objects,
\* apiKey is a non-empty string, and every optional place is missing, null
\* or of its declared type.
WellFormedLogin(p) ==
    /\ p.result = "dict"
    /\ p.auth = "dict"
    /\ p.apiKey.kind = "str" /\ p.apiKey.v # ""
    /\ p.meta \in {"dict", "absent", "null"}
    /\ p.wskAuthAttempts \in {"list", "absent", "null"}
    /\ \A f \in DOMAIN FieldType : p.f[f] \in {"absent", "null", FieldType[f]}

\* C22: for every well-formed login payload that contains a token in
\* result.auth.apiKey, get_api_key() returns True and api_key afterwards is
\* exactly that token.
C22_LoginKeepsTokenExactly ==
    (LoginCalled /\ WellFormedLogin(LoginPayloadSeen)) =>
        /\ lastCall[1].raised = ""
        /\ lastCall[1].returned = TRUE
        /\ api_key = Some(LoginPayloadSeen.apiKey.v)

\* A second login with another token and every optional field null replaces
\* the token of the first.
C22_Witness ==
    /\ LoginCalled
    /\ WellFormedLogin(LoginPayloadSeen)
    /\ \A f \in DOMAIN FieldType : LoginPayloadSeen.f[f] = "null"
    /\ LoginPayloadSeen.apiKey.v = "tokenB"
    /\ lastCall[1].before = Some("1234567890")
    /\ api_key = Some("tokenB")

\* The last call was get_api_key() and the login endpoint was unreachable:
\* the request timed out or the connection failed.
LoginUnreachable ==
    /\ lastCall # None
    /\ lastCall[1].op = "get_api_key"
    /\ lastCall[1].http.net # "response"

\* C23: when the login endpoint is unreachable (the request primitive times
\* out or the connection fails), get_api_key() fails with
\* RyobiAuthenticationError.
C23_UnreachableIsAuthenticationError ==
    LoginUnreachable => lastCall[1].raised = "RyobiAuthenticationError"

\* The payload has no usable token: result or auth is missing or is not an
\* object, or apiKey is missing, null, empty or not a string.
NoUsableToken(p) ==
    \/ p.result # "dict"
    \/ p.auth # "dict"
    \/ p.apiKey.kind # "str"
    \/ p.apiKey.v = ""

\* C24: if the login payload has no usable token, get_api_key() raises
\* RyobiInvalidResponseError and api_key keeps the value it had before the
\* call (None before any successful login): no default token is substituted.
C24_NoTokenRaisesAndKeepsKey ==
    (LoginCalled /\ NoUsableToken(LoginPayloadSeen)) =>
        /\ lastCall[1].raised = "RyobiInvalidResponseError"
        /\ lastCall[1].returned = FALSE
        /\ api_key = lastCall[1].before
        /\ (lastCall[1].before = None => api_key = None)

\* After a successful login, a payload whose auth is a string leaves the
\* token of the first login in place.
C24_Witness ==
    /\ LoginCalled
    /\ LoginPayloadSeen.auth = "str"
    /\ lastCall[1].before = Some("1234567890")
    /\ api_key = Some("1234567890")
    /\ lastCall[1].raised = "RyobiInvalidResponseError"

\* result.auth.apiKey is a usable token.
UsableToken(p) == ~NoUsableToken(p)

\* C25: get_api_key() succeeds whenever result.auth.apiKey is a usable token,
\* whatever the optional fields are: a missing, null or malformed metaData,
\* wskAuthAttempts, authCount, regPin, clientUserName, createdDate,
\* childSelectors, enabled, deleted or activated never makes the login fail.
C25_OptionalFieldsNeverFail ==
    (LoginCalled /\ UsableToken(LoginPayloadSeen)) =>
        /\ lastCall[1].raised = ""
        /\ lastCall[1].returned = TRUE
        /\ api_key = Some(LoginPayloadSeen.apiKey.v)

\* The last call was get_devices() and the request primitive handed it a
\* payload.
DevicesCalled ==
    /\ lastCall # None
    /\ lastCall[1].op = "get_devices"
    /\ process_request(lastCall[1].http).raised = ""

DevicesPayloadSeen == lastCall[1].http.payload

\* A well-formed device list: a non-empty list whose entries all have
\* varName and metaData.name.
WellFormedList(p) ==
    /\ p.result = "list"
    /\ p.entries # <<>>
    /\ \A i \in 1..Len(p.entries) : FullEntry \subseteq p.entries[i].has

ListedIds(p) == {p.entries[i].varName : i \in 1..Len(p.entries)}

\* The last name listed for a device id.
LastNameOf(p, id) ==
    LET last == CHOOSE i \in 1..Len(p.entries) :
                    /\ p.entries[i].varName = id
                    /\ \A j \in (i + 1)..Len(p.entries) :
                          p.entries[j].varName # id
    IN  p.entries[last].name

\* C26: get_devices() has exactly three outcomes: for a well-formed reply a
\* non-empty ordered mapping of device id to display name with one entry per
\* listed device; RyobiDeviceNotFoundError when the result list is empty;
\* RyobiInvalidResponseError for every malformed payload (result missing or
\* not a list, an entry without varName or without metaData.name).  It never
\* returns an empty mapping and never raises another error type.
C26_ThreeOutcomes ==
    DevicesCalled =>
        LET p == DevicesPayloadSeen
            c == lastCall[1]
        IN  IF WellFormedList(p)
            THEN /\ c.raised = ""
                 /\ c.returned # <<>>
                 /\ {c.returned[i][1] : i \in 1..Len(c.returned)} = ListedIds(p)
                 /\ \A i, j \in 1..Len(c.returned) :
                        c.returned[i][1] = c.returned[j][1] => i = j
                 /\ \A i \in 1..Len(c.returned) :
                        c.returned[i][2] = LastNameOf(p, c.returned[i][1])
            ELSE IF p.result = "list" /\ p.entries = <<>>
            THEN c.raised = "RyobiDeviceNotFoundError"
            ELSE c.raised = "RyobiInvalidResponseError"

\* The reply lacks the expected structure: no result, an empty result list,
\* no deviceTypeMap, an indexed module without an attribute update_device
\* reads, or a type map without a key for any capability.
LacksStructure(reply) ==
    \/ reply.kind \in {"no_result", "empty_result", "no_dtm"}
    \/ /\ reply.kind = "ok"
       /\ \/ MissingAttr(reply.dtm)
          \/ Matched(reply.dtm) = {}

\* C27: update_device(d) raises RyobiInvalidResponseError, and no other error
\* type, and returns no value, whenever the reply lacks the expected
\* structure or the type map contains no key for any capability.
C27_MalformedSnapshotIsInvalidResponse ==
    (fetches # <<>> /\ LacksStructure(LastFetch.reply)) =>
        /\ LastFetch.raised
        /\ LastFetch.error = "RyobiInvalidResponseError"

\* The last call was made on the request primitive itself.
PrimitiveCalled == lastCall # None /\ lastCall[1].op = "process_request"

ObjectReceived ==
    /\ lastCall # None
    /\ lastCall[1].http.net = "response"
    /\ lastCall[1].http.body = "object"

Non2xx(status) == status < 200 \/ status > 299

\* The call ended with the primitive's error, or went on with the payload.
PrimitiveFailed == process_request(lastCall[1].http).raised # ""

\* The caller went on with the payload the response carried: the primitive
\* returned it, or the login made from it succeeded.
TreatedAsSuccess ==
    \/ /\ lastCall[1].op = "process_request"
       /\ lastCall[1].raised = ""
       /\ lastCall[1].returned = Some(lastCall[1].http.payload)
    \/ /\ lastCall[1].op = "get_api_key"
       /\ lastCall[1].raised = ""
       /\ api_key = Some(lastCall[1].http.payload.apiKey.v)
    \/ /\ lastCall[1].op = "get_devices"
       /\ lastCall[1].raised = ""
       /\ lastCall[1].returned # <<>>

CoordinatorCleanupEnded ==
    \/ pc = "cleanup_failed"
    \/ pc = "closing" /\ clK > Len(WebsocketOrder)

\* C30: ServiceCoordinator.cleanup() calls cleanup() on every device in
\* device_manager.devices and close() on every websocket in websockets, the
\* device cleanups before the closes, and every registered websocket is
\* closed by the time cleanup() ends, whatever the outcome of the individual
\* device cleanups.
C30_CleanupClosesEveryWebsocket ==
    /\ CoordinatorCleanupEnded =>
          /\ \A d \in DOMAIN devices : cleanupRes[d] \in {"returned", "raised"}
          /\ \A d \in websockets : ws[d] = "closed"
    /\ \A d \in websockets :
          (pc \in {"cleanup", "closing"} /\ ws[d] = "closed")
              => \A x \in DOMAIN devices : cleanupRes[x] \in {"returned", "raised"}

\* ------------------------------------------------ commands in flight
\* The futures of device d that run_coroutine_threadsafe created and that are
\* neither completed nor cancelled.
InFlight(d) ==
    {f \in 1..Len(futs) : futs[f].dev = d /\ futs[f].state = "pending"}

\* RyobiDevice.cleanup of device d is between its first and its last line.
InCleanup(d) == cleanupRes[d] = "running"

\* C31: at every moment outside RyobiDevice.cleanup, _pending_futures of a
\* device holds exactly the futures send_command submitted for it that are
\* not yet done, whatever the interleaving of the MQTT thread and the loop
\* thread: no completed future is retained, no in-flight one is missing.
C31_PendingFuturesExact ==
    \A d \in Devices :
        ~InCleanup(d) => pending_futures[d] = InFlight(d)

\* RyobiDevice.cleanup of device d has run to its last line and returned.
CleanedUp(d) == cleanupRes[d] = "returned"

\* C32: once RyobiDevice.cleanup() has completed for a device, no further
\* command tuple is written to that device's Transport: a command arriving
\* during or after the cleanup is not dispatched, or its unit of work is
\* cancelled before it sends.
C32_NoSendAfterCleanup ==
    [][\A d \in Devices : CleanedUp(d) => sent'[d] = sent[d]]_vars

\* ------------------------------------------- the bridges taking commands
\* The state a caller of DeviceManager.setup_device is in when it has set up
\* its devices and their receive loops run: each bridge is seeded from its
\* own snapshot (one of them has a door and the accessories, and no light).
\* The setup of the second device may have failed with a connection error:
\* that device is then not registered.  The two update_device calls of the
\* setup are the first entries of the log of fetches.
InitCommands ==
    LET DtmAccessories ==
            <<GarageDoor7,
              [key |-> <<"parkAssistLaser", "_", "1">>, at |-> [moduleState |-> 0]],
              [key |-> <<"inflator", "_", "2">>, at |-> [moduleState |-> 0]],
              [key |-> <<"btSpeaker", "_", "3">>,
               at |-> [moduleState |-> 0, micEnable |-> 0]],
              [key |-> <<"fan", "_", "6">>, at |-> [speed |-> 0]]>>
    IN  \E reply1 \in {ReplyOk(DtmFull), ReplyOk(DtmAccessories)},
           reply2 \in {ReplyOk(DtmLightOnly), ReplyOk(DtmAccessories),
                       ReplyConnError} :
            LET reply == [d \in Devices |-> IF d = "d1" THEN reply1 ELSE reply2]
                registered == {d \in Devices : ~UpdateRaises(reply[d])}
            IN  /\ fetches =
                       [i \in 1..2 |->
                           LET d == <<"d1", "d2">>[i]
                           IN  [d |-> d, reply |-> reply[d],
                                raised |-> UpdateRaises(reply[d]),
                                error |-> UpdateError(reply[d])]]
                /\ device_modules =
                       [d \in registered |-> IndexModules(reply[d].dtm)]
                /\ devices =
                       [d \in registered |->
                           ApplyCalls(NewDevice,
                                      InitialCalls(DeviceDataOf(reply[d].dtm)))]
                /\ ws = [d \in Devices |->
                            IF d \in registered THEN "listening" ELSE "none"]
                /\ setupFailed = Devices \ registered
                /\ driver = "client"
                /\ pc = "running"
                /\ idx = 3
                /\ session = "open"
                /\ exitCode = None
                /\ api_key = Some("apiKey")
                /\ all_devices = <<"d1", "d2">>
                /\ websockets = {}
                /\ h = [d \in Devices |-> Idle]
                /\ nCmds = 0
                /\ futs = <<>>
                /\ pending_futures = [d \in Devices |-> {}]
                /\ sent = [d \in Devices |-> <<>>]
                /\ errors = [d \in Devices |-> 0]
                /\ foreignWrites = [d \in Devices |-> {}]
                /\ clK = 0
                /\ clIter = NoIter
                /\ cleanupRes = [d \in Devices |-> "none"]
                /\ atStart = [d \in Devices |-> [set |-> {}, armed |-> TRUE]]
                /\ rx = [d \in Devices |-> <<>>]
                /\ nHandled = [d \in Devices |-> 0]
                /\ applied = [d \in Devices |-> <<>>]
                /\ nFrames = 0
                /\ decoded = [d \in Devices |-> None]
                /\ snapshot = None
                /\ lastCall = None
                /\ requests = 0

\* Commands of every channel, with payloads inside and outside the
\* channel's vocabulary.
NextCommands ==
    \/ \E d \in Devices, p \in {"OPEN", "CLOSE", "STOP", "TOGGLE"} :
          HandleDoorCommand(d, p)
    \/ \E d \in Devices, p \in {"ON", "OFF", "on"} : HandleLightCommand(d, p)
    \/ \E d \in Devices, p \in {"ON", "OFF", "TOGGLE"} :
          HandleVacationCommand(d, p)
    \/ \E d \in Devices, s \in {"park_assist", "inflator", "bt_speaker"},
          p \in {"ON", "OFF", "1"} :
          HandleSwitchCommand(d, s, p)
    \/ \E d \in Devices, p \in {<<"5", "0">>, <<"o", "n">>} :
          HandleFanCommand(d, p)
    \/ \E d \in Devices : CallSendCommand(d, "sprinkler", 1)
    \/ Dispatch

SpecCommands == InitCommands /\ [][NextCommands]_vars

\* Handler d starts on a command that send_command is going to refuse.
BeginsRefused(d) == h[d].pc = "idle" /\ h'[d].pc = "send" /\ IsRefused(d)'

\* send_command refuses the command of handler d and the handler returns.
ReturnsRefused(d) == h[d].pc = "send" /\ h'[d].pc # "send" /\ IsRefused(d)

\* C33: a command whose dispatch is aborted (capability unknown, or no
\* module-index entry) is aborted as a whole: it sends nothing and its
\* handler changes no display value, neither before nor after the refused
\* send_command call.
C33_AbortedCommandChangesNothing ==
    [][\A d \in Devices :
          /\ BeginsRefused(d) => devices'[d] = devices[d]
          /\ ReturnsRefused(d) => devices'[d] = devices[d] /\ sent' = sent]_vars

\* Handler d has read its payload and goes on to call send_command.
GoesOn(d) == h[d].pc = "idle" /\ h'[d].pc = "send"

\* A command was received and its handler returned without calling
\* send_command.
Ignored == nCmds' = nCmds + 1 /\ h' = h

\* The channels whose vocabulary is ON and OFF.
OnOffChannels == {"light", "vacation", "park_assist", "inflator", "bt_speaker"}

\* C34: on every command channel a payload outside the vocabulary is a no-op.
\* Only OPEN, CLOSE and STOP make the door handler call send_command, only ON
\* and OFF make a light, vacation, park-assist, inflator or speaker handler
\* call it, with value 1 only for ON and value 0 only for OFF; a command that
\* is ignored changes no display value and sends nothing.
C34_OutOfVocabularyIsNoOp ==
    [][/\ \A d \in Devices :
            GoesOn(d) =>
                /\ h'[d].kind = "door" => h'[d].payload \in {"OPEN", "CLOSE", "STOP"}
                /\ h'[d].kind \in OnOffChannels =>
                      /\ h'[d].payload \in {"ON", "OFF"}
                      /\ h'[d].value = 1 <=> h'[d].payload = "ON"
                      /\ h'[d].value = 0 <=> h'[d].payload = "OFF"
       /\ Ignored => devices' = devices /\ futs' = futs /\ sent' = sent]_vars

\* ---------------------------------------- refreshes between commands
\* The caller refreshes snapshots with update_device while commands and
\* frames arrive.  A refresh may move the door to port 9, and may fail: with
\* a connection error, or on a light entry that lacks lightState.
NextRefresh ==
    \/ \E d \in Devices,
          reply \in {r \in ClientReplies :
                       \/ r = ReplyConnError
                       \/ r.kind = "ok"
                          /\ \E i \in 1..Len(r.dtm) :
                                r.dtm[i].key = <<"garageDoor", "_", "9">>} :
          UpdateDevice(d, reply)
    \/ \E d \in Devices : HandleDoorCommand(d, "OPEN")
    \/ Dispatch
    \/ \E d \in Devices,
          fr \in {f \in Frames : f.method = "wskAttributeUpdateNtfy"
                                 /\ Len(f.params) = 2
                                 /\ f.params[1].key = LightKey7} :
          HandleDeviceUpdate(d, fr)

SpecRefresh == InitCommands /\ [][NextRefresh]_vars

\* update_device was called in this step and raised.
FetchRaised ==
    Len(fetches') = Len(fetches) + 1 /\ fetches'[Len(fetches')].raised

\* C36: when update_device(d) raises, _device_modules is what it was before
\* the call: a failed snapshot fetch neither replaces nor partly applies the
\* module index of d.
C36_FailedFetchKeepsIndex ==
    [][FetchRaised => device_modules' = device_modules]_vars

\* The update_device calls for device d that returned a snapshot.
GoodFetches(d) ==
    {i \in 1..Len(fetches) : fetches[i].d = d /\ ~fetches[i].raised}

\* The module index built from the most recent successful fetch for d.
LastGoodIndex(d) ==
    LET last == CHOOSE i \in GoodFetches(d) : \A j \in GoodFetches(d) : j <= i
    IN  IndexModules(fetches[last].reply.dtm)

\* send_command of handler d creates the future of a send in this step.
Dispatches(d) == h[d].pc = "send" /\ h'[d].pc = "add"

\* C35: the port of every command tuple is the port of the capability's wire
\* key in the most recent successful snapshot fetch for the device, looked up
\* when the command is dispatched: never a port of an earlier fetch, and
\* never one of a fetch that failed.
C35_PortOfLastSuccessfulFetch ==
    [][\A d \in Devices :
          Dispatches(d) =>
              /\ GoodFetches(d) # {}
              /\ h[d].module \in DOMAIN LastGoodIndex(d)
              /\ futs'[h'[d].fut].args[1] =
                     GetModule([x \in {d} |-> LastGoodIndex(d)], d,
                               h[d].module)[1]]_vars

\* ---------------------------------------------------- device isolation
\* Everything the program holds for device d alone: its module index, its
\* display values, its pending futures and what was sent on its Transport.
OwnState(d) ==
    [index |-> IF d \in DOMAIN device_modules
               THEN Some(device_modules[d]) ELSE None,
     display |-> IF d \in DOMAIN devices THEN Some(devices[d]) ELSE None,
     pending |-> pending_futures[d],
     sent |-> sent[d]]

\* This step is an operation on device a: update_device(a), a frame handled
\* for a (registered or not), a step of a's command handler, or the
\* scheduled send of one of a's commands.
ActsOn(a) ==
    \/ Len(fetches') = Len(fetches) + 1 /\ fetches'[Len(fetches')].d = a
    \/ Len(rx'[a]) = Len(rx[a]) + 1
    \/ h'[a] # h[a]
    \/ \E f \in 1..Len(futs) :
           futs[f].dev = a /\ futs'[f].state # futs[f].state

\* C37: an operation on one device (a snapshot fetch, a frame on its
\* Transport, a command, or a frame for an id that is not registered)
\* changes no other device's module index, display state or pending-command
\* set, and sends nothing on another device's Transport.
C37_OtherDevicesUntouched ==
    [][\A a \in Devices, b \in Devices :
          (a # b /\ ActsOn(a)) => OwnState(b)' = OwnState(b)]_vars

\* The first device was refreshed onto port 9, received a frame and had a
\* command sent from the new port; the second device is as its setup left it.
C37_Witness ==
    /\ Len(fetches) = 3 /\ fetches[3].d = "d1" /\ ~fetches[3].raised
    /\ Len(rx["d1"]) = 1
    /\ sent["d1"] = <<<<9, 5, "doorCommand", 1>>>>
    /\ OwnState("d2") =
           [index |-> Some(IndexModules(DtmLightOnly)),
            display |-> Some(ApplyCalls(NewDevice,
                                 InitialCalls(DeviceDataOf(DtmLightOnly)))),
            pending |-> {},
            sent |-> <<>>]

\* ---------------------------------------------------------- startup order
\* The snapshot fetch of device d has succeeded: its DeviceData is in hand,
\* or its bridge was already constructed from it.
FetchSucceeded(d) ==
    \/ d \in DOMAIN devices
    \/ snapshot # None /\ idx \in 1..Len(all_devices) /\ all_devices[idx] = d

\* The bridge of device d is registered and seeded with its snapshot.
Seeded(d) ==
    /\ d \in DOMAIN devices
    /\ ~(pc \in {"construct", "seed"} /\ all_devices[idx] = d)

\* C38: startup goes, for each device, from the snapshot fetch to the
\* Transport, then to the bridge constructed and seeded, then to the receive
\* loop: a Transport exists or is registered only for a device whose
\* snapshot fetch succeeded, a receive loop runs only for a seeded bridge,
\* and frames are delivered only to a registered and seeded device.
C38_StartupOrder ==
    \A d \in Devices :
        /\ (ws[d] # "none" \/ d \in websockets) => FetchSucceeded(d)
        /\ ws[d] = "listening" => Seeded(d)
        /\ nHandled[d] > 0 => Seeded(d)

====
